---------------------------- MODULE Spec2Model ----------------------------
(***************************************************************************)
(* Model of the sweepstake markup generator's domain package: the error    *)
(* aggregator, the matches CSV loader, the team audit, the team, match,    *)
(* tournament and sweepstake validators and the prize generators.          *)
(*                                                                         *)
(* Go strings that the code trims, splits or compares are sequences of     *)
(* one-character strings (<<"A", " ">> is "A ").  Error messages are the   *)
(* rendered text, as TLA+ strings.  A *Team that may be nil is a record    *)
(* with a nil flag.                                                        *)
(***************************************************************************)
EXTENDS Integers, Sequences, FiniteSets, TLC

VARIABLES
    pc,             \* what is to run, "done" once it has
    teams,          \* TeamCollection handed to validateTeams (mutated in place)
    teamsOut,       \* what validateTeams returned
    records,        \* data rows of the matches CSV handed to LoadMatches
    matches,        \* the *Match objects built from the rows (mutated in place)
    matchesOut,     \* what LoadMatches returned
    tournament,     \* the *Tournament that LoadTournament builds and validates
    tournamentOut,  \* what LoadTournament returned
    tournaments,    \* TournamentCollection handed to validateTournaments
    tournamentsOut, \* what validateTournaments returned
    sweepstakes,    \* SweepstakeCollection handed to validateSweepstakes
    sweepstakesOut, \* what validateSweepstakes returned
    prizeSweepstakes, \* the *Sweepstake values handed to the prize generators
    prizes,         \* what the prize generators returned for each of them
    mErr,           \* the Errs of a multiErr that Add is called on
    added,          \* the Add calls made on it: the view's prefixes and the error
    ref,            \* a *Team that populateTeamByID is applied to
    refErr,         \* what populateTeamByID returned last
    audit,          \* the counter map of a teamsAudit over the teams
    acks,           \* the ack calls made on it: the team and what ack returned
    loaders,        \* what each loader handed to NewTournamentCollection returns
    called          \* the loaders called so far, by their place in the list

vars == <<pc, teams, teamsOut, records, matches, matchesOut, tournament,
          tournamentOut, tournaments, tournamentsOut, sweepstakes,
          sweepstakesOut, prizeSweepstakes, prizes, mErr, added, ref, refErr,
          audit, acks, loaders, called>>

unitVars == <<mErr, added, ref, refErr, audit, acks, loaders, called>>

-----------------------------------------------------------------------------
(* Bounds of the model.                                                    *)

MaxTeams == 2           \* teams in a collection handed to validateTeams
MaxRows == 2            \* data rows of a matches CSV
MaxTournamentMatches == 2 \* matches of a tournament handed to validateTournament
MaxTournaments == 3     \* tournaments handed to validateTournaments
MaxParticipants == 3    \* participants of one sweepstake
MaxSweepstakes == 2     \* sweepstakes handed to validateSweepstakes
MaxEvents == 2          \* entries written in an own-goal or red-card field
MaxPrizeMatches == 2    \* matches of a tournament handed to the ranked prizes
MaxAdds == 3            \* Add calls made on one aggregator
MaxAcks == 3            \* ack calls made on one audit

-----------------------------------------------------------------------------
(* Strings.                                                                *)

\* F(v), with v evaluated once and bound to its value
With(v, F(_)) == CHOOSE r \in {F(x) : x \in {v}} : TRUE

SeqsUpTo(S, n) == UNION {[1..k -> S] : k \in 0..n}

RECURSIVE TrimLeft(_)
TrimLeft(s) == IF s # <<>> /\ Head(s) = " " THEN TrimLeft(Tail(s)) ELSE s

RECURSIVE TrimRight(_)
TrimRight(s) ==
    IF s # <<>> /\ s[Len(s)] = " " THEN TrimRight(SubSeq(s, 1, Len(s) - 1)) ELSE s

\* strings.Trim(s, " ")
Trim(s) == TrimRight(TrimLeft(s))

\* the text of a character sequence
RECURSIVE Join(_)
Join(s) == IF s = <<>> THEN "" ELSE Head(s) \o Join(Tail(s))

Digit(d) == CASE d = 0 -> "0" [] d = 1 -> "1" [] d = 2 -> "2" [] d = 3 -> "3"
              [] d = 4 -> "4" [] d = 5 -> "5" [] d = 6 -> "6" [] d = 7 -> "7"
              [] d = 8 -> "8" [] d = 9 -> "9"

\* the decimal digits of n >= 0, as characters (fmt's %d)
RECURSIVE ItoaChars(_)
ItoaChars(n) == IF n < 10 THEN <<Digit(n)>> ELSE ItoaChars(n \div 10) \o <<Digit(n % 10)>>

Itoa(n) == Join(ItoaChars(n))

\* the byte of a character, for Go's bytewise string comparison
Byte(c) == CASE c = " " -> 32 [] c = "'" -> 39 [] c = "0" -> 48 [] c = "1" -> 49
             [] c = "2" -> 50 [] c = "3" -> 51 [] c = "4" -> 52 [] c = "5" -> 53
             [] c = "6" -> 54 [] c = "7" -> 55 [] c = "8" -> 56 [] c = "9" -> 57
             [] c = ":" -> 58 [] c = "A" -> 65 [] c = "B" -> 66 [] c = "C" -> 67
             [] c = "F" -> 70 [] c = "a" -> 97 [] c = "c" -> 99 [] c = "d" -> 100
             [] c = "e" -> 101 [] c = "i" -> 105 [] c = "m" -> 109 [] c = "n" -> 110
             [] c = "o" -> 111 [] c = "t" -> 116 [] c = "u" -> 117

\* Go's a < b on strings
RECURSIVE StrLess(_, _)
StrLess(a, b) ==
    IF b = <<>> THEN FALSE
    ELSE IF a = <<>> THEN TRUE
    ELSE IF Head(a) # Head(b) THEN Byte(Head(a)) < Byte(Head(b))
    ELSE StrLess(Tail(a), Tail(b))

\* the less function handed to sort.SliceStable, by the place of the call
LessBy(kind, a, b) ==
    CASE kind = "text" -> StrLess(a, b)
      [] kind = "value" -> a.value > b.value
      [] kind = "event" -> IF a.Minute = b.Minute THEN a.Offset < b.Offset
                           ELSE a.Minute < b.Minute

\* sort.SliceStable: insertion of x after every element that is not greater
RECURSIVE InsertStable(_, _, _)
InsertStable(sorted, x, kind) ==
    IF sorted = <<>> THEN <<x>>
    ELSE IF LessBy(kind, x, Head(sorted)) THEN <<x>> \o sorted
    ELSE <<Head(sorted)>> \o InsertStable(Tail(sorted), x, kind)

RECURSIVE SliceStable(_, _)
SliceStable(s, kind) ==
    IF s = <<>> THEN <<>>
    ELSE With(SliceStable(SubSeq(s, 1, Len(s) - 1), kind),
              LAMBDA sorted : InsertStable(sorted, s[Len(s)], kind))

\* the orders in which a set may be enumerated
Orders(S) == {o \in [1..Cardinality(S) -> S] : \A i, j \in DOMAIN o : i # j => o[i] # o[j]}

-----------------------------------------------------------------------------
(* errors.go: the error aggregator.  Errs is the list of rendered          *)
(* messages; a prefixed view is the list of its prefixes, outermost first. *)

ErrIsEmpty == "is empty"
ErrIsDuplicate == "is duplicate"
ErrNotFound == "not found"

\* a nil error
NilError == "<nil>"

NewMultiError == <<>>

\* multiErr.Add that appends whatever it is handed
multiErr_Add_always(errs, err) == Append(errs, err)

multiErr_Add(errs, err) == IF err # NilError THEN Append(errs, err) ELSE errs

multiErr_IsEmpty(errs) == Len(errs) = 0

\* multiErr.WithPrefix: the view of the aggregator with this prefix
multiErr_WithPrefix(prefix) == <<prefix>>

\* WithPrefix of a view: the view that puts its prefix after the view's own
multiErrWithPrefix_WithPrefix(view, prefix) == Append(view, prefix)

\* the wrapping of a view that does not look at its prefix
multiErrWithPrefix_Wrap_always(prefix, err) ==
    IF err # NilError THEN prefix \o ": " \o err ELSE err

\* the error a view with this prefix hands on to the aggregator it wraps
multiErrWithPrefix_Wrap(prefix, err) ==
    IF err # NilError /\ prefix # "" THEN prefix \o ": " \o err ELSE err

\* Add through a view: each view, innermost first, wraps and hands on
RECURSIVE multiErrWithPrefix_Add(_, _, _)
multiErrWithPrefix_Add(errs, prefixes, err) ==
    IF prefixes = <<>> THEN multiErr_Add(errs, err)
    ELSE multiErrWithPrefix_Add(errs, SubSeq(prefixes, 1, Len(prefixes) - 1),
                                multiErrWithPrefix_Wrap(prefixes[Len(prefixes)], err))

\* Add of every error of a list, in order
RECURSIVE AddAll(_, _, _)
AddAll(errs, prefixes, list) ==
    IF list = <<>> THEN errs
    ELSE AddAll(multiErrWithPrefix_Add(errs, prefixes, Head(list)), prefixes, Tail(list))

\* nothing returned yet
NoOut ==
    [collNil |-> TRUE, coll |-> <<>>, errNil |-> TRUE, aggregate |-> FALSE,
     errs |-> <<>>, msg |-> "", built |-> <<>>]

\* What a loader or validator returns: the collection (collNil when it is
\* nil), and the error: errNil, or the aggregate's list errs, or the text
\* msg of an error that is no aggregate.  built is what the call built or
\* mutated, whether or not it returned it.
Returned(coll, built) ==
    [collNil |-> FALSE, coll |-> coll, errNil |-> TRUE, aggregate |-> FALSE,
     errs |-> <<>>, msg |-> "", built |-> built]

Failed(msg, built) ==
    [collNil |-> TRUE, coll |-> <<>>, errNil |-> FALSE, aggregate |-> FALSE,
     errs |-> <<>>, msg |-> msg, built |-> built]

FailedWith(errs, msg, built) ==
    [collNil |-> TRUE, coll |-> <<>>, errNil |-> FALSE, aggregate |-> TRUE,
     errs |-> errs, msg |-> msg, built |-> built]

-----------------------------------------------------------------------------
(* team.go                                                                 *)

NilTeam == [nil |-> TRUE, ID |-> <<>>, Name |-> <<>>, ImageURL |-> <<>>]

Team(id, name, url) == [nil |-> FALSE, ID |-> id, Name |-> name, ImageURL |-> url]

\* TeamCollection.GetByID: the first team with the id, or nil
RECURSIVE TeamCollection_GetByID(_, _)
TeamCollection_GetByID(tc, id) ==
    IF tc = <<>> THEN NilTeam
    ELSE IF ~Head(tc).nil /\ Head(tc).ID = id THEN Head(tc)
    ELSE TeamCollection_GetByID(Tail(tc), id)

\* validateTeam: the team with its fields trimmed, and the error returned
validateTeam(team) ==
    LET t == [team EXCEPT !.ID = Trim(team.ID), !.Name = Trim(team.Name),
                          !.ImageURL = Trim(team.ImageURL)]
    IN  [team |-> t,
         err |-> IF t.ID = <<>> THEN "id: " \o ErrIsEmpty
                 ELSE IF t.Name = <<>> THEN "name: " \o ErrIsEmpty
                 ELSE IF t.ImageURL = <<>> THEN "image url: " \o ErrIsEmpty
                 ELSE NilError]

\* validateTeams from index idx (counted from 1 here, from 0 in the messages)
\* with the ids stored so far; returns at the first invalid team
RECURSIVE validateTeamsFrom(_, _, _)
validateTeamsFrom(tc, idx, ids) ==
    IF idx > Len(tc) THEN Returned(tc, tc)
    ELSE With(validateTeam(tc[idx]), LAMBDA v :
         With([tc EXCEPT ![idx] = v.team], LAMBDA tc2 :
             IF v.err # NilError
             THEN Failed("invalid team at index " \o Itoa(idx - 1) \o ": " \o v.err, tc2)
             ELSE IF v.team.ID \in ids
             THEN Failed("invalid team at index " \o Itoa(idx - 1) \o ": id "
                         \o Join(v.team.ID) \o ": " \o ErrIsDuplicate, tc2)
             ELSE validateTeamsFrom(tc2, idx + 1, ids \cup {v.team.ID})))

validateTeams(tc) == validateTeamsFrom(tc, 1, {})

\* teamsAudit.init: a counter 0 for every team id that has none; mp is the
\* counter map, a function from ids to counts
RECURSIVE teamsAudit_init(_, _)
teamsAudit_init(tc, mp) ==
    IF tc = <<>> THEN mp
    ELSE IF Head(tc).nil \/ Head(tc).ID \in DOMAIN mp THEN teamsAudit_init(Tail(tc), mp)
    ELSE teamsAudit_init(Tail(tc), (Head(tc).ID :> 0) @@ mp)

\* teamsAudit.set
teamsAudit_set(tc, mp, team, val) ==
    IF team.nil THEN [ok |-> FALSE, mp |-> mp]
    ELSE [ok |-> TRUE, mp |-> (team.ID :> val) @@ teamsAudit_init(tc, mp)]

\* teamsAudit.ack that counts a team it has no counter for
teamsAudit_ack_creating(tc, mp, team) ==
    IF team.nil THEN [ok |-> FALSE, mp |-> mp]
    ELSE With(teamsAudit_init(tc, mp), LAMBDA m :
             teamsAudit_set(tc, m, team, (IF team.ID \in DOMAIN m THEN m[team.ID] ELSE 0) + 1))

\* teamsAudit.ack
teamsAudit_ack(tc, mp, team) ==
    IF team.nil THEN [ok |-> FALSE, mp |-> mp]
    ELSE With(teamsAudit_init(tc, mp), LAMBDA m :
             IF team.ID \notin DOMAIN m THEN [ok |-> FALSE, mp |-> m]
             ELSE teamsAudit_set(tc, m, team, m[team.ID] + 1))

\* teamsAudit.inc: adds n to the counter of the team; no counter changes and
\* false is returned when the team is nil or has no counter
teamsAudit_inc(tc, mp, team, n) ==
    IF team.nil THEN [ok |-> FALSE, mp |-> mp]
    ELSE With(teamsAudit_init(tc, mp), LAMBDA m :
             IF team.ID \notin DOMAIN m THEN [ok |-> FALSE, mp |-> m]
             ELSE teamsAudit_set(tc, m, team, m[team.ID] + n))

\* teamsAudit.get: the counter of the team, 0 and false when the team is nil
\* or has no counter
teamsAudit_get(tc, mp, team) ==
    IF team.nil THEN [val |-> 0, ok |-> FALSE]
    ELSE With(teamsAudit_init(tc, mp), LAMBDA m :
             IF team.ID \notin DOMAIN m THEN [val |-> 0, ok |-> FALSE]
             ELSE [val |-> m[team.ID], ok |-> TRUE])

\* the characters of "team id '<id>': count <n>"
TeamCountChars(id, n) ==
    <<"t", "e", "a", "m", " ", "i", "d", " ", "'">> \o id
    \o <<"'", ":", " ", "c", "o", "u", "n", "t", " ">> \o ItoaChars(n)

\* the errors teamsAudit.validate collects when Range visits the keys in
\* this order
RECURSIVE teamsAudit_collect(_, _, _)
teamsAudit_collect(mp, order, exactlyOnce) ==
    IF order = <<>> THEN <<>>
    ELSE LET val == mp[Head(order)]
             rest == teamsAudit_collect(mp, Tail(order), exactlyOnce)
         IN  IF (exactlyOnce /\ val # 1) \/ (~exactlyOnce /\ val = 0)
             THEN <<TeamCountChars(Head(order), val)>> \o rest
             ELSE rest

RECURSIVE JoinAll(_)
JoinAll(list) == IF list = <<>> THEN <<>> ELSE <<Join(Head(list))>> \o JoinAll(Tail(list))

\* teamsAudit.validate reporting only the counters that are 0, whatever the
\* mode asked for
teamsAudit_validate_zeroOnly(tc, mp, errs, prefixes, exactlyOnce, order) ==
    AddAll(errs, prefixes,
           JoinAll(SliceStable(teamsAudit_collect(teamsAudit_init(tc, mp), order, FALSE),
                               "text")))

\* teamsAudit.validate without the sort
teamsAudit_validate_unsorted(tc, mp, errs, prefixes, exactlyOnce, order) ==
    AddAll(errs, prefixes,
           JoinAll(teamsAudit_collect(teamsAudit_init(tc, mp), order, exactlyOnce)))

\* teamsAudit.validate: the aggregator's list afterwards; order is the order
\* in which sync.Map.Range visits the keys
teamsAudit_validate(tc, mp, errs, prefixes, exactlyOnce, order) ==
    With(teamsAudit_init(tc, mp), LAMBDA m :
    With(teamsAudit_collect(m, order, exactlyOnce), LAMBDA found :
        AddAll(errs, prefixes, JoinAll(SliceStable(found, "text")))))

-----------------------------------------------------------------------------
(* match.go: parsing of the matches CSV                                    *)

IsDigit(c) == c \in {"0", "1", "2", "3", "4", "5", "6", "7", "8", "9"}

DigitVal(c) == CASE c = "0" -> 0 [] c = "1" -> 1 [] c = "2" -> 2 [] c = "3" -> 3
                 [] c = "4" -> 4 [] c = "5" -> 5 [] c = "6" -> 6 [] c = "7" -> 7
                 [] c = "8" -> 8 [] c = "9" -> 9

RECURSIVE DigitsVal(_, _)
DigitsVal(s, acc) == IF s = <<>> THEN acc ELSE DigitsVal(Tail(s), acc * 10 + DigitVal(Head(s)))

\* strconv.Atoi: an optional sign, then one or more decimal digits (texts
\* beyond the range of int are longer than any the model writes)
Atoi(s) ==
    LET signed == s # <<>> /\ Head(s) \in {"+", "-"}
        digits == IF signed THEN Tail(s) ELSE s
        ok == digits # <<>> /\ \A i \in DOMAIN digits : IsDigit(digits[i])
    IN  [ok |-> ok,
         val |-> IF ~ok THEN 0
                 ELSE IF signed /\ Head(s) = "-" THEN 0 - DigitsVal(digits, 0)
                 ELSE DigitsVal(digits, 0),
         err |-> "strconv.Atoi: parsing \"" \o Join(s) \o "\": invalid syntax"]

\* the conversion uint8(v) of an int
uint8(v) == v % 256

\* the index of the first c in s, 0 when there is none
RECURSIVE IndexOf(_, _, _)
IndexOf(s, c, from) ==
    IF from > Len(s) THEN 0 ELSE IF s[from] = c THEN from ELSE IndexOf(s, c, from + 1)

\* strings.Split(s, c) for a one-character separator
RECURSIVE Split(_, _)
Split(s, c) ==
    LET i == IndexOf(s, c, 1)
    IN  IF i = 0 THEN <<s>>
        ELSE <<SubSeq(s, 1, i - 1)>> \o Split(SubSeq(s, i + 1, Len(s)), c)

\* strings.SplitN(s, c, 2)
SplitN2(s, c) ==
    LET i == IndexOf(s, c, 1)
    IN  IF i = 0 THEN <<s>> ELSE <<SubSeq(s, 1, i - 1), SubSeq(s, i + 1, Len(s))>>

matchesCSVHeader ==
    <<"MATCH_ID", "DATE", "TIME", "STAGE", "COMPLETED", "WINNER_TEAM_ID",
      "HOME_TEAM_ID", "AWAY_TEAM_ID", "HOME_GOALS", "AWAY_GOALS",
      "HOME_YELLOW_CARDS", "AWAY_YELLOW_CARDS", "HOME_OG", "AWAY_OG",
      "HOME_RED_CARDS", "AWAY_RED_CARDS">>

GroupStage == 1
KnockoutStage == 2

\* time.Time{}
ZeroTime == 0

\* time.Parse("02/01/2006 15:04", s).  In a DATE field the character "D"
\* stands for a well-formed dd/mm/yyyy text and in a TIME field "T" for a
\* well-formed hh:mm text; the one instant they name is 1.
TimeParse(s) == [ok |-> s = <<"D", " ", "T">>, val |-> 1]

\* Every parser returns [val, errs]: its value and the aggregator's list
\* after the calls to Add it made through the view with these prefixes.

parseTimestamp(sDate, sTime, errs, prefixes) ==
    LET sTimestamp == Trim(sDate \o <<" ">> \o sTime)
        parsed == TimeParse(sTimestamp)
    IN  IF sTimestamp = <<>> THEN [val |-> ZeroTime, errs |-> errs]
        ELSE IF ~parsed.ok
        THEN [val |-> ZeroTime,
              errs |-> multiErrWithPrefix_Add(errs, prefixes,
                           "invalid timestamp format: " \o Join(sTimestamp))]
        ELSE [val |-> parsed.val, errs |-> errs]

convertToMatchStage(s, errs, prefixes) ==
    IF s = <<"G", "R", "O", "U", "P">> THEN [val |-> GroupStage, errs |-> errs]
    ELSE IF s = <<"K", "O">> THEN [val |-> KnockoutStage, errs |-> errs]
    ELSE [val |-> 0,
          errs |-> multiErrWithPrefix_Add(errs, prefixes, "invalid match stage: " \o Join(s))]

parseUInt8(sInt, errs, prefixes) ==
    LET a == Atoi(sInt)
    IN  IF sInt = <<>> THEN [val |-> 0, errs |-> errs]
        ELSE IF ~a.ok
        THEN [val |-> 0,
              errs |-> multiErrWithPrefix_Add(errs, prefixes, "invalid int: " \o a.err)]
        ELSE [val |-> uint8(a.val), errs |-> errs]

\* parseMatchEvent: val is <<>> for nil, else the one event
parseMatchEvent(sEvent, errs, prefixes) ==
    LET split == Split(sEvent, ":")
        name == Trim(split[1])
        sp2 == SplitN2(split[2], "+")
        rawMinute == sp2[1]
        rawOffset == IF Len(sp2) = 2 THEN sp2[2] ELSE <<>>
        minute == Atoi(rawMinute)
        offset == Atoi(rawOffset)
        fail(msg) == [val |-> <<>>, errs |-> multiErrWithPrefix_Add(errs, prefixes, msg)]
    IN  IF Len(split) # 2 THEN fail("invalid format")
        ELSE IF ~minute.ok THEN fail("minute: invalid int: " \o minute.err)
        ELSE IF minute.val < 1 THEN fail("minute: must be greater than 0")
        ELSE IF rawOffset # <<>> /\ ~offset.ok THEN fail("offset: invalid int: " \o offset.err)
        ELSE IF rawOffset # <<>> /\ offset.val < 1 THEN fail("offset: must be greater than 0")
        ELSE [val |-> <<[Name |-> name, Minute |-> uint8(minute.val),
                         Offset |-> IF rawOffset # <<>> THEN uint8(offset.val) ELSE 0]>>,
              errs |-> errs]

\* the loop of parseMatchEvents over elems, from element idx
RECURSIVE parseMatchEventsFrom(_, _, _, _, _)
parseMatchEventsFrom(elems, idx, events, errs, prefixes) ==
    IF idx > Len(elems) THEN [val |-> events, errs |-> errs]
    ELSE With(parseMatchEvent(elems[idx], errs, Append(prefixes, "event " \o Itoa(idx))),
              LAMBDA r : parseMatchEventsFrom(elems, idx + 1, events \o r.val, r.errs, prefixes))

\* parseMatchEvents: val is the list of events, <<>> for nil
parseMatchEvents(sEventsRaw, errs, prefixes) ==
    LET sEvents == Trim(sEventsRaw)
        split == Split(sEvents, ";")
        elemCount == Atoi(split[1])
        elems == Tail(split)
    IN  IF sEvents = <<>> THEN [val |-> <<>>, errs |-> errs]
        ELSE IF ~elemCount.ok
        THEN [val |-> <<>>,
              errs |-> multiErrWithPrefix_Add(errs, prefixes,
                           "first element must provide count of remaining elements")]
        ELSE IF Len(elems) # elemCount.val
        THEN [val |-> <<>>,
              errs |-> multiErrWithPrefix_Add(errs, prefixes,
                           "must have " \o (IF elemCount.val < 0 THEN "-" \o Itoa(0 - elemCount.val)
                                            ELSE Itoa(elemCount.val))
                           \o " element" \o (IF elemCount.val # 1 THEN "s" ELSE ""))]
        ELSE parseMatchEventsFrom(elems, 1, <<>>, errs, prefixes)

\* a placeholder team for a team id field: nil when the field is empty
Placeholder(id) == IF id # <<>> THEN Team(id, <<>>, <<>>) ELSE NilTeam

\* transformCSVRowToMatch: [val |-> the match, errs |-> the list afterwards];
\* the fields are parsed in the order of the struct literal
transformCSVRowToMatch(row, errs, prefixes) ==
    With(parseTimestamp(row.DATE, row.TIME, errs, prefixes), LAMBDA ts :
    With(convertToMatchStage(row.STAGE, ts.errs, prefixes), LAMBDA st :
    With(parseUInt8(row.HOME_GOALS, st.errs, Append(prefixes, "home goals")), LAMBDA hg :
    With(parseUInt8(row.HOME_YELLOW_CARDS, hg.errs, Append(prefixes, "home yellow cards")),
         LAMBDA hy :
    With(parseMatchEvents(row.HOME_OG, hy.errs, Append(prefixes, "home own goals")),
         LAMBDA hog :
    With(parseMatchEvents(row.HOME_RED_CARDS, hog.errs, Append(prefixes, "home red cards")),
         LAMBDA hrc :
    With(parseUInt8(row.AWAY_GOALS, hrc.errs, Append(prefixes, "away goals")), LAMBDA ag :
    With(parseUInt8(row.AWAY_YELLOW_CARDS, ag.errs, Append(prefixes, "away yellow cards")),
         LAMBDA ay :
    With(parseMatchEvents(row.AWAY_OG, ay.errs, Append(prefixes, "away own goals")),
         LAMBDA aog :
    With(parseMatchEvents(row.AWAY_RED_CARDS, aog.errs, Append(prefixes, "away red cards")),
         LAMBDA arc :
        [val |-> [ID |-> row.MATCH_ID,
                  Timestamp |-> ts.val,
                  Stage |-> st.val,
                  Home |-> [Team |-> Placeholder(row.HOME_TEAM_ID), Goals |-> hg.val,
                            YellowCards |-> hy.val, OwnGoals |-> hog.val,
                            RedCards |-> hrc.val],
                  Away |-> [Team |-> Placeholder(row.AWAY_TEAM_ID), Goals |-> ag.val,
                            YellowCards |-> ay.val, OwnGoals |-> aog.val,
                            RedCards |-> arc.val],
                  Winner |-> Placeholder(row.WINNER_TEAM_ID),
                  Completed |-> row.COMPLETED = <<"Y">>],
         errs |-> arc.errs]))))))))))

\* a loop over the data rows that stops after the first row with an error
RECURSIVE transformRowsFrom_failFast(_, _, _, _)
transformRowsFrom_failFast(rows, rowNum, ms, errs) ==
    IF rowNum > Len(rows) \/ ~multiErr_IsEmpty(errs) THEN [val |-> ms, errs |-> errs]
    ELSE With(transformCSVRowToMatch(rows[rowNum], errs, <<"row " \o Itoa(rowNum)>>),
              LAMBDA r : transformRowsFrom_failFast(rows, rowNum + 1, Append(ms, r.val),
                                                    r.errs))

\* the loop of transformCSVToMatches over the data rows, from row rowNum
RECURSIVE transformRowsFrom(_, _, _, _)
transformRowsFrom(rows, rowNum, ms, errs) ==
    IF rowNum > Len(rows) THEN [val |-> ms, errs |-> errs]
    ELSE With(transformCSVRowToMatch(rows[rowNum], errs, <<"row " \o Itoa(rowNum)>>),
              LAMBDA r : transformRowsFrom(rows, rowNum + 1, Append(ms, r.val), r.errs))

\* strings.Join(list, sep) of a list of texts
RECURSIVE JoinWith(_, _)
JoinWith(list, sep) ==
    IF list = <<>> THEN ""
    ELSE IF Len(list) = 1 THEN Head(list)
    ELSE Head(list) \o sep \o JoinWith(Tail(list), sep)

\* records is [header, rows]: the first record and the ones after it (no
\* header at all: header = <<>>)
RecordsLen(recs) == IF recs.header = <<>> THEN 0 ELSE 1 + Len(recs.rows)

transformCSVToMatches(recs) ==
    IF RecordsLen(recs) < 2
    THEN Failed("rows " \o Itoa(RecordsLen(recs))
                \o ": file must have header row and at least one more row", <<>>)
    ELSE IF recs.header # matchesCSVHeader
    THEN Failed("invalid headers: " \o JoinWith(recs.header, ","), <<>>)
    ELSE With(transformRowsFrom(recs.rows, 1, <<>>, NewMultiError), LAMBDA r :
             IF ~multiErr_IsEmpty(r.errs) THEN FailedWith(r.errs, "", r.val)
             ELSE Returned(r.val, r.val))

-----------------------------------------------------------------------------
(* match.go: validation of the matches                                     *)

\* a comparison that finds no two teams identical
isTeamIDIdentical_never(a, b) == FALSE

isTeamIDIdentical(a, b) == IF a.nil \/ b.nil THEN FALSE ELSE a.ID = b.ID

\* isTeamNotOneOf(needle, haystack...)
isTeamNotOneOf(needle, haystack) ==
    IF needle.nil THEN FALSE
    ELSE ~\E i \in DOMAIN haystack : ~haystack[i].nil /\ haystack[i].ID = needle.ID

\* the trimming validateMatch does of a team that is not nil
TrimTeamID(team) == IF team.nil THEN team ELSE [team EXCEPT !.ID = Trim(team.ID)]

\* the match after validateMatch has trimmed its ids
validateMatch_trimmed(match) ==
    [match EXCEPT !.ID = Trim(match.ID),
                  !.Home.Team = TrimTeamID(match.Home.Team),
                  !.Away.Team = TrimTeamID(match.Away.Team),
                  !.Winner = TrimTeamID(match.Winner)]

\* validateMatch: [val |-> the match as mutated, errs |-> the list afterwards]
validateMatch(match, errs, prefixes) ==
    With(validateMatch_trimmed(match), LAMBDA m :
    LET e1 == IF m.ID = <<>>
              THEN multiErrWithPrefix_Add(errs, prefixes, "id: " \o ErrIsEmpty) ELSE errs
        e2 == IF m.Timestamp = ZeroTime
              THEN multiErrWithPrefix_Add(e1, prefixes, "timestamp: " \o ErrIsEmpty) ELSE e1
        e3 == IF isTeamIDIdentical(m.Home.Team, m.Away.Team)
              THEN multiErrWithPrefix_Add(e2, prefixes,
                       "home team id and away team id are identical: " \o Join(m.Home.Team.ID))
              ELSE e2
        e4 == IF isTeamNotOneOf(m.Winner, <<m.Home.Team, m.Away.Team>>)
              THEN multiErrWithPrefix_Add(e3, prefixes,
                       "winning team id " \o Join(m.Winner.ID)
                       \o " must match either home or away team id")
              ELSE e3
    IN  [val |-> m, errs |-> e4])

\* the duplicate check of validateMatches on the match at index idx
\* a duplicate check that reports nothing
validateMatches_duplicate_silent(match, ids, errs, prefixes) == errs

validateMatches_duplicate(match, ids, errs, prefixes) ==
    IF match.ID \in ids
    THEN multiErrWithPrefix_Add(errs, prefixes, "id '" \o Join(match.ID) \o "': " \o ErrIsDuplicate)
    ELSE errs

\* the loop of validateMatches, from index idx (counted from 1 here, from 0
\* in the messages) with the ids stored so far
RECURSIVE validateMatchesFrom(_, _, _, _)
validateMatchesFrom(ms, idx, ids, errs) ==
    IF idx > Len(ms) THEN [val |-> ms, errs |-> errs]
    ELSE LET prefixes == <<"index " \o Itoa(idx - 1)>>
         IN  With(validateMatch(ms[idx], errs, prefixes), LAMBDA v :
             With(validateMatches_duplicate(v.val, ids, v.errs, prefixes), LAMBDA e :
                 validateMatchesFrom([ms EXCEPT ![idx] = v.val], idx + 1,
                                     ids \cup {v.val.ID}, e)))

\* the return of a collection validator whose aggregate holds errs
\* the return of a validator that hands back its aggregator unchecked
validateMatches_return_unchecked(coll, errs) == FailedWith(errs, "", coll)

validateMatches_return(coll, errs) ==
    IF ~multiErr_IsEmpty(errs) THEN FailedWith(errs, "", coll) ELSE Returned(coll, coll)

validateMatches(ms) ==
    With(validateMatchesFrom(ms, 1, {}, NewMultiError),
         LAMBDA r : validateMatches_return(r.val, r.errs))

\* MatchesCSVLoader.LoadMatches on the records read from the file
LoadMatches(recs) ==
    With(transformCSVToMatches(recs), LAMBDA t :
        IF ~t.errNil THEN [t EXCEPT !.msg = "cannot transform csv: " \o t.msg]
        ELSE validateMatches(t.coll))

-----------------------------------------------------------------------------
(* tournament.go                                                           *)

\* the exactly-once mode
validateTournament_exactlyOnce_strict == TRUE

\* the mode validateTournament hands to teamsAudit.validate
validateTournament_exactlyOnce == FALSE

\* populateTeamByID that puts the found name after the one the reference has
populateTeamByID_merging(team, collection) ==
    LET t == TeamCollection_GetByID(collection, team.ID)
    IN  IF team.nil \/ team.ID = <<>> THEN [val |-> team, err |-> NilError]
        ELSE IF t.nil
        THEN [val |-> team, err |-> "team id '" \o Join(team.ID) \o "': " \o ErrNotFound]
        ELSE [val |-> [t EXCEPT !.Name = team.Name \o t.Name], err |-> NilError]

\* populateTeamByID: [val |-> the team afterwards, err |-> the error]
populateTeamByID(team, collection) ==
    LET t == TeamCollection_GetByID(collection, team.ID)
    IN  IF team.nil THEN [val |-> team, err |-> NilError]
        ELSE IF team.ID = <<>> THEN [val |-> team, err |-> NilError]
        ELSE IF t.nil
        THEN [val |-> team, err |-> "team id '" \o Join(team.ID) \o "': " \o ErrNotFound]
        ELSE [val |-> t, err |-> NilError]

\* the error validateTournament adds for a slot, nil when there is none
SlotError(slot, err) == IF err = NilError THEN NilError ELSE slot \o ": " \o err

\* the loop of validateTournament over the matches, from match matchNum;
\* mp is the audit's counter map
RECURSIVE validateTournamentFrom(_, _, _, _, _)
validateTournamentFrom(teamList, ms, matchNum, mp, errs) ==
    IF matchNum > Len(ms) THEN [val |-> ms, mp |-> mp, errs |-> errs]
    ELSE LET prefixes == <<"match " \o Itoa(matchNum)>>
             match == ms[matchNum]
         IN  With(populateTeamByID(match.Home.Team, teamList), LAMBDA home :
             With(populateTeamByID(match.Away.Team, teamList), LAMBDA away :
             With(populateTeamByID(match.Winner, teamList), LAMBDA winner :
             With(multiErrWithPrefix_Add(
                      multiErrWithPrefix_Add(
                          multiErrWithPrefix_Add(errs, prefixes, SlotError("home", home.err)),
                          prefixes, SlotError("away", away.err)),
                      prefixes, SlotError("winner", winner.err)), LAMBDA e :
             With([match EXCEPT !.Home.Team = home.val, !.Away.Team = away.val,
                                !.Winner = winner.val], LAMBDA m :
             With(teamsAudit_ack(teamList, mp, m.Home.Team), LAMBDA a1 :
             With(teamsAudit_ack(teamList, a1.mp, m.Away.Team), LAMBDA a2 :
                 validateTournamentFrom(teamList, [ms EXCEPT ![matchNum] = m],
                                        matchNum + 1, a2.mp, e))))))))

\* the required fields of a tournament or a sweepstake, trimmed
TrimFields(x) ==
    [x EXCEPT !.ID = Trim(x.ID), !.Name = Trim(x.Name), !.ImageURL = Trim(x.ImageURL)]

\* the errors for the required fields that are empty
RequiredFieldErrors(x, errs) ==
    LET e1 == IF x.ID = <<>> THEN multiErr_Add(errs, "id: " \o ErrIsEmpty) ELSE errs
        e2 == IF x.Name = <<>> THEN multiErr_Add(e1, "name: " \o ErrIsEmpty) ELSE e1
    IN  IF x.ImageURL = <<>> THEN multiErr_Add(e2, "image url: " \o ErrIsEmpty) ELSE e2

\* the keys of the audit of a team list, which Range visits in some order
AuditKeys(teamList) == DOMAIN teamsAudit_init(teamList, <<>>)

\* validateTournament: [val |-> the tournament as mutated, errs |-> the list
\* afterwards]; order is the order in which Range visits the counters
validateTournament(trn, errs, order) ==
    With(TrimFields(trn), LAMBDA t :
    With(RequiredFieldErrors(t, errs), LAMBDA e :
    With(validateTournamentFrom(t.Teams, t.Matches, 1, <<>>, e), LAMBDA r :
        [val |-> [t EXCEPT !.Matches = r.val],
         errs |-> teamsAudit_validate(t.Teams, r.mp, r.errs, <<>>,
                                      validateTournament_exactlyOnce, order)])))

\* the loop of validateTournaments
RECURSIVE validateTournamentsFrom(_, _, _, _)
validateTournamentsFrom(ts, idx, ids, errs) ==
    IF idx > Len(ts) THEN errs
    ELSE validateTournamentsFrom(ts, idx + 1, ids \cup {ts[idx].ID},
             IF ts[idx].ID \in ids
             THEN multiErr_Add(errs, "id '" \o Join(ts[idx].ID) \o "': " \o ErrIsDuplicate)
             ELSE errs)

\* TournamentFSLoader.LoadTournament on the decoded config, the teams its
\* teams loader decoded and the records its matches loader read.  Returns
\* [teams, matches, out]: what the two loaders returned and its own return,
\* whose collection is the one tournament.
LoadTournament(config, teamsJSON, recs, order) ==
    With(validateTeams(teamsJSON), LAMBDA tl :
        IF ~tl.errNil
        THEN [teams |-> tl, matches |-> NoOut, ranMatches |-> FALSE,
              out |-> Failed("cannot load teams: " \o tl.msg, config)]
        ELSE With(LoadMatches(recs), LAMBDA ml :
            IF ~ml.errNil
            THEN [teams |-> tl, matches |-> ml, ranMatches |-> TRUE,
                  out |-> [ml EXCEPT !.msg = "cannot load matches: " \o ml.msg,
                                     !.built = config]]
            ELSE With(validateTournament([config EXCEPT !.Teams = tl.coll,
                                                        !.Matches = ml.coll],
                                         NewMultiError, order), LAMBDA v :
                [teams |-> tl, matches |-> ml, ranMatches |-> TRUE,
                 out |-> IF ~multiErr_IsEmpty(v.errs) THEN FailedWith(v.errs, "", v.val)
                         ELSE Returned(v.val, v.val)])))

validateTournaments_return(coll, errs) ==
    IF ~multiErr_IsEmpty(errs) THEN FailedWith(errs, "", coll) ELSE Returned(coll, coll)

validateTournaments(ts) ==
    validateTournaments_return(ts, validateTournamentsFrom(ts, 1, {}, NewMultiError))

\* the loop of NewTournamentCollection that carries on after a loader failed
NewTournamentCollection_call_skipping(ts, idx, loaded) ==
    [failed |-> FALSE,
     tournaments |-> IF loaded.err # NilError THEN ts ELSE Append(ts, loaded.tournament),
     out |-> NoOut]

\* the loop of NewTournamentCollection on the loader at place idx (counted
\* from 1 here, from 0 in the message), which returned loaded: whether
\* NewTournamentCollection returns at once, what it returns then, and the
\* tournaments so far
NewTournamentCollection_call(ts, idx, loaded) ==
    IF loaded.err # NilError
    THEN [failed |-> TRUE, tournaments |-> ts,
          out |-> Failed("loader index " \o Itoa(idx - 1) \o ": " \o loaded.err, ts)]
    ELSE [failed |-> FALSE, tournaments |-> Append(ts, loaded.tournament), out |-> NoOut]

-----------------------------------------------------------------------------
(* sweepstake.go                                                           *)

\* the loop of validateSweepstake over the participants, from index idx
\* (counted from 1 here, from 0 in the messages)
RECURSIVE validateParticipantsFrom(_, _, _, _, _)
validateParticipantsFrom(teamList, ps, idx, mp, errs) ==
    IF idx > Len(ps) THEN [val |-> ps, mp |-> mp, errs |-> errs]
    ELSE With([TeamID |-> Trim(ps[idx].TeamID), Name |-> Trim(ps[idx].Name)], LAMBDA p :
         With(teamsAudit_ack(teamList, mp, Team(p.TeamID, <<>>, <<>>)), LAMBDA a :
         With(IF ~a.ok
              THEN multiErrWithPrefix_Add(errs, <<"participant index " \o Itoa(idx - 1)>>,
                       "unrecognised participant team id: " \o Join(p.TeamID))
              ELSE errs, LAMBDA e :
             validateParticipantsFrom(teamList, [ps EXCEPT ![idx] = p], idx + 1, a.mp, e))))

\* validateSweepstake: [val |-> the sweepstake as mutated, errs |-> the list
\* afterwards]
validateSweepstake(sweepstake, errs, order) ==
    With(TrimFields(sweepstake), LAMBDA s :
    With(RequiredFieldErrors(s, errs), LAMBDA e :
    With(validateParticipantsFrom(s.Tournament.Teams, s.Participants, 1, <<>>, e), LAMBDA r :
        [val |-> [s EXCEPT !.Participants = r.val],
         errs |-> teamsAudit_validate(s.Tournament.Teams, r.mp, r.errs, <<>>, TRUE,
                                      order)])))

\* the duplicate check of validateSweepstakes, made on the id as the
\* sweepstake holds it when the loop reaches it
validateSweepstakes_duplicate(sweepstake, ids, errs) ==
    IF sweepstake.ID \in ids
    THEN multiErrWithPrefix_Add(errs, <<"id '" \o Join(sweepstake.ID) \o "'">>, ErrIsDuplicate)
    ELSE errs

\* the participants of the sweepstakes before index idx
RECURSIVE ParticipantsBefore(_, _)
ParticipantsBefore(ss, idx) ==
    IF idx <= 1 THEN <<>>
    ELSE ParticipantsBefore(ss, idx - 1) \o ss[idx - 1].Participants

\* the loop of validateSweepstakes with one audit for all the sweepstakes: the
\* counters of a sweepstake start where the sweepstakes before it left them
RECURSIVE validateSweepstakesFrom_sharedAudit(_, _, _, _, _)
validateSweepstakesFrom_sharedAudit(ss, idx, ids, errs, orders) ==
    IF idx > Len(ss) THEN [val |-> ss, errs |-> errs]
    ELSE With(validateSweepstakes_duplicate(ss[idx], ids, errs), LAMBDA e :
         With(TrimFields(ss[idx]), LAMBDA s :
         With(validateParticipantsFrom(s.Tournament.Teams, ParticipantsBefore(ss, idx),
                                       1, <<>>, <<>>).mp, LAMBDA counted :
         With(validateParticipantsFrom(s.Tournament.Teams, s.Participants, 1, counted,
                                       RequiredFieldErrors(s, e)), LAMBDA r :
             validateSweepstakesFrom_sharedAudit(
                 [ss EXCEPT ![idx] = [s EXCEPT !.Participants = r.val]], idx + 1,
                 ids \cup {ss[idx].ID},
                 teamsAudit_validate(s.Tournament.Teams, r.mp, r.errs, <<>>, TRUE,
                                     orders[idx]), orders)))))

\* the loop of validateSweepstakes; orders[i] is the order in which Range
\* visits the counters of the audit of sweepstake i
RECURSIVE validateSweepstakesFrom(_, _, _, _, _)
validateSweepstakesFrom(ss, idx, ids, errs, orders) ==
    IF idx > Len(ss) THEN [val |-> ss, errs |-> errs]
    ELSE With(validateSweepstakes_duplicate(ss[idx], ids, errs), LAMBDA e :
         With(ss[idx].ID, LAMBDA stored :
         With(validateSweepstake(ss[idx], e, orders[idx]), LAMBDA v :
             validateSweepstakesFrom([ss EXCEPT ![idx] = v.val], idx + 1,
                                     ids \cup {stored}, v.errs, orders))))

validateSweepstakes_return(coll, errs) ==
    IF ~multiErr_IsEmpty(errs) THEN FailedWith(errs, "", coll) ELSE Returned(coll, coll)

validateSweepstakes(ss, orders) ==
    With(validateSweepstakesFrom(ss, 1, {}, NewMultiError, orders),
         LAMBDA r : validateSweepstakes_return(r.val, r.errs))

-----------------------------------------------------------------------------
(* prizes.go, and the lookups of match.go and sweepstake.go it uses.  A    *)
(* *Sweepstake that may be nil is a record with a nil flag; a *Match or a  *)
(* *Participant that was not found is <<>>, one that was found is <<x>>.   *)

finalMatchID == <<"F">>
tournamentWinner == "Tournament Winner"
tournamentRunnerUp == "Tournament Runner-Up"
mostGoalsConceded == "Most Goals Conceded"
mostYellowCards == "Most Yellow Cards"
quickestOwnGoal == "Quickest Own Goal"

\* MatchCollection.GetByID: the first match with the id
RECURSIVE MatchCollection_GetByID(_, _)
MatchCollection_GetByID(mc, id) ==
    IF mc = <<>> THEN <<>>
    ELSE IF Head(mc).ID = id THEN <<Head(mc)>>
    ELSE MatchCollection_GetByID(Tail(mc), id)

GetWinnerByMatchID_uncompleted(mc, id) ==
    LET match == MatchCollection_GetByID(mc, id)
    IN  IF match = <<>> THEN NilTeam ELSE match[1].Winner

\* MatchCollection.GetWinnerByMatchID
GetWinnerByMatchID(mc, id) ==
    LET match == MatchCollection_GetByID(mc, id)
    IN  IF match = <<>> \/ ~match[1].Completed THEN NilTeam ELSE match[1].Winner

\* MatchCollection.GetRunnerUpByMatchID: of the home and the away team of
\* the match, the one that is not the recorded winner; nil when the match is
\* missing, not completed or without winner
GetRunnerUpByMatchID(mc, id) ==
    LET match == MatchCollection_GetByID(mc, id)
    IN  IF match = <<>> \/ ~match[1].Completed THEN NilTeam
        ELSE IF match[1].Winner.nil THEN NilTeam
        ELSE IF ~match[1].Home.Team.nil /\ match[1].Home.Team.ID = match[1].Winner.ID
        THEN match[1].Away.Team
        ELSE IF ~match[1].Away.Team.nil /\ match[1].Away.Team.ID = match[1].Winner.ID
        THEN match[1].Home.Team
        ELSE NilTeam

\* ParticipantCollection.GetByTeamID: the first participant with the team id
RECURSIVE ParticipantCollection_GetByTeamID(_, _)
ParticipantCollection_GetByTeamID(ps, id) ==
    IF ps = <<>> THEN <<>>
    ELSE IF Head(ps).TeamID = id THEN <<Head(ps)>>
    ELSE ParticipantCollection_GetByTeamID(Tail(ps), id)

getSummaryFromTeamAndParticipant_teamOnly(team, participant) == team.Name

\* getSummaryFromTeamAndParticipant, of a team that is not nil
getSummaryFromTeamAndParticipant(team, participant) ==
    IF participant = <<>> \/ participant[1].Name = <<>> THEN team.Name
    ELSE participant[1].Name \o <<" ", "(">> \o team.Name \o <<")">>

OutrightPrize(prizeName, participantName, imageURL) ==
    [PrizeName |-> prizeName, ParticipantName |-> participantName, ImageURL |-> imageURL]

\* the defaultPrize of the outright prizes
DefaultOutrightPrize(prizeName) == OutrightPrize(prizeName, <<"T", "B", "C">>, <<>>)

\* TournamentWinner
TournamentWinner(s) ==
    IF s.nil THEN DefaultOutrightPrize(tournamentWinner)
    ELSE With(GetWinnerByMatchID(s.Tournament.Matches, finalMatchID), LAMBDA winningTeam :
         IF winningTeam.nil THEN DefaultOutrightPrize(tournamentWinner)
         ELSE OutrightPrize(tournamentWinner,
                  getSummaryFromTeamAndParticipant(winningTeam,
                      ParticipantCollection_GetByTeamID(s.Participants, winningTeam.ID)),
                  winningTeam.ImageURL))

TournamentRunnerUp_winner(s) ==
    [TournamentWinner(s) EXCEPT !.PrizeName = tournamentRunnerUp]

\* TournamentRunnerUp
TournamentRunnerUp(s) ==
    IF s.nil THEN DefaultOutrightPrize(tournamentRunnerUp)
    ELSE With(GetRunnerUpByMatchID(s.Tournament.Matches, finalMatchID), LAMBDA runnerUpTeam :
         IF runnerUpTeam.nil THEN DefaultOutrightPrize(tournamentRunnerUp)
         ELSE OutrightPrize(tournamentRunnerUp,
                  getSummaryFromTeamAndParticipant(runnerUpTeam,
                      ParticipantCollection_GetByTeamID(s.Participants, runnerUpTeam.ID)),
                  runnerUpTeam.ImageURL))

\* the results of getPrizeRankingsFromAudit before the sort: every team of
\* the audit with its counter
RECURSIVE teamsWithValueFrom(_, _, _)
teamsWithValueFrom(tc, mp, idx) ==
    IF idx > Len(tc) THEN <<>>
    ELSE With(teamsAudit_get(tc, mp, tc[idx]), LAMBDA got :
             <<[team |-> tc[idx], value |-> got.val]>>
                 \o teamsWithValueFrom(tc, mp, idx + 1))

\* the text of a total; "*" stands for the emoji of the format string
TotalValue(value) == <<"*", " ">> \o ItoaChars(value)

Rank(position, imageURL, participantName, value) ==
    [Position |-> position, ImageURL |-> imageURL, ParticipantName |-> participantName,
     Value |-> value]

\* a loop that numbers the positions from 0
RECURSIVE getPrizeRankingsFrom_zeroBased(_, _, _)
getPrizeRankingsFrom_zeroBased(results, idx, participants) ==
    IF idx > Len(results) THEN <<>>
    ELSE IF results[idx].value = 0
    THEN getPrizeRankingsFrom_zeroBased(results, idx + 1, participants)
    ELSE <<Rank(uint8(idx - 1), results[idx].team.ImageURL,
                getSummaryFromTeamAndParticipant(results[idx].team,
                    ParticipantCollection_GetByTeamID(participants, results[idx].team.ID)),
                TotalValue(results[idx].value))>>
         \o getPrizeRankingsFrom_zeroBased(results, idx + 1, participants)

\* the loop of getPrizeRankingsFromAudit over the sorted results, from index
\* idx (counted from 1 here, from 0 in the code)
RECURSIVE getPrizeRankingsFrom(_, _, _)
getPrizeRankingsFrom(results, idx, participants) ==
    IF idx > Len(results) THEN <<>>
    ELSE IF results[idx].value = 0
    THEN getPrizeRankingsFrom(results, idx + 1, participants)
    ELSE <<Rank(uint8(idx), results[idx].team.ImageURL,
                getSummaryFromTeamAndParticipant(results[idx].team,
                    ParticipantCollection_GetByTeamID(participants, results[idx].team.ID)),
                TotalValue(results[idx].value))>>
         \o getPrizeRankingsFrom(results, idx + 1, participants)

\* the rankings without the sort
getPrizeRankingsFromAudit_unsorted(tc, mp, participants) ==
    getPrizeRankingsFrom(teamsWithValueFrom(tc, mp, 1), 1, participants)

\* getPrizeRankingsFromAudit on the team list and the counter map of the audit
getPrizeRankingsFromAudit(tc, mp, participants) ==
    With(SliceStable(teamsWithValueFrom(tc, mp, 1), "value"), LAMBDA results :
        getPrizeRankingsFrom(results, 1, participants))

RankedPrize(prizeName, rankings) == [PrizeName |-> prizeName, Rankings |-> rankings]

\* a loop that credits each team with the goals it scored
RECURSIVE MostGoalsConcededFrom_scored(_, _, _, _)
MostGoalsConcededFrom_scored(tc, ms, idx, mp) ==
    IF idx > Len(ms) THEN mp
    ELSE IF ~ms[idx].Completed THEN MostGoalsConcededFrom_scored(tc, ms, idx + 1, mp)
    ELSE With(teamsAudit_inc(tc, mp, ms[idx].Home.Team, ms[idx].Home.Goals), LAMBDA h :
         With(teamsAudit_inc(tc, h.mp, ms[idx].Away.Team, ms[idx].Away.Goals), LAMBDA a :
             MostGoalsConcededFrom_scored(tc, ms, idx + 1, a.mp)))

\* the loop of MostGoalsConceded over the matches: the totals afterwards
RECURSIVE MostGoalsConcededFrom(_, _, _, _)
MostGoalsConcededFrom(tc, ms, idx, mp) ==
    IF idx > Len(ms) THEN mp
    ELSE IF ~ms[idx].Completed THEN MostGoalsConcededFrom(tc, ms, idx + 1, mp)
    ELSE With(teamsAudit_inc(tc, mp, ms[idx].Home.Team, ms[idx].Away.Goals), LAMBDA h :
         With(teamsAudit_inc(tc, h.mp, ms[idx].Away.Team, ms[idx].Home.Goals), LAMBDA a :
             MostGoalsConcededFrom(tc, ms, idx + 1, a.mp)))

\* MostGoalsConceded
MostGoalsConceded(s) ==
    IF s.nil THEN RankedPrize(mostGoalsConceded, <<>>)
    ELSE With(MostGoalsConcededFrom(s.Tournament.Teams, s.Tournament.Matches, 1, <<>>),
              LAMBDA totals :
             RankedPrize(mostGoalsConceded,
                 getPrizeRankingsFromAudit(s.Tournament.Teams, totals, s.Participants)))

\* the loop of MostYellowCards over the matches: the totals afterwards
RECURSIVE MostYellowCardsFrom(_, _, _, _)
MostYellowCardsFrom(tc, ms, idx, mp) ==
    IF idx > Len(ms) THEN mp
    ELSE IF ~ms[idx].Completed THEN MostYellowCardsFrom(tc, ms, idx + 1, mp)
    ELSE With(teamsAudit_inc(tc, mp, ms[idx].Home.Team, ms[idx].Home.YellowCards), LAMBDA h :
         With(teamsAudit_inc(tc, h.mp, ms[idx].Away.Team, ms[idx].Away.YellowCards), LAMBDA a :
             MostYellowCardsFrom(tc, ms, idx + 1, a.mp)))

\* MostYellowCards
MostYellowCards(s) ==
    IF s.nil THEN RankedPrize(mostYellowCards, <<>>)
    ELSE With(MostYellowCardsFrom(s.Tournament.Teams, s.Tournament.Matches, 1, <<>>),
              LAMBDA totals :
             RankedPrize(mostYellowCards,
                 getPrizeRankingsFromAudit(s.Tournament.Teams, totals, s.Participants)))

\* the events of one competitor with the teams and the timestamp of the match
eventsWithTeams(events, timestamp, for, against) ==
    [k \in DOMAIN events |->
        [Name |-> events[k].Name, Minute |-> events[k].Minute, Offset |-> events[k].Offset,
         Timestamp |-> timestamp, For |-> for, Against |-> against]]

\* matchEventsExtractor.ownGoals
ownGoals(match) ==
    eventsWithTeams(match.Home.OwnGoals, match.Timestamp, match.Home.Team, match.Away.Team)
    \o eventsWithTeams(match.Away.OwnGoals, match.Timestamp, match.Away.Team, match.Home.Team)

\* a loop that extracts the own goals of every match
RECURSIVE QuickestOwnGoalFrom_uncompleted(_, _, _)
QuickestOwnGoalFrom_uncompleted(ms, idx, events) ==
    IF idx > Len(ms) THEN events
    ELSE QuickestOwnGoalFrom_uncompleted(ms, idx + 1, events \o ownGoals(ms[idx]))

\* the loop of QuickestOwnGoal over the matches: the events afterwards
RECURSIVE QuickestOwnGoalFrom(_, _, _)
QuickestOwnGoalFrom(ms, idx, events) ==
    IF idx > Len(ms) THEN events
    ELSE IF ~ms[idx].Completed THEN QuickestOwnGoalFrom(ms, idx + 1, events)
    ELSE QuickestOwnGoalFrom(ms, idx + 1, events \o ownGoals(ms[idx]))

\* MatchEvent.String: "<minute>'" or "<minute>'+<offset>", then the name
MatchEvent_String(ev) ==
    ItoaChars(ev.Minute) \o <<"'">>
    \o (IF ev.Offset > 0 THEN <<"+">> \o ItoaChars(ev.Offset) ELSE <<>>)
    \o <<" ">> \o ev.Name

\* Time.Format("02/01"): times are numbered, "d<n>/mm" is the day and month
\* of time n
TimeFormat(timestamp) == <<"d">> \o ItoaChars(timestamp) \o <<"/", "m", "m">>

\* the text of an own goal; "*" stands for the emoji of the format string
OwnGoalValue(ev) ==
    <<"*", " ">> \o MatchEvent_String(ev) \o <<" ", "(", "v", "s", " ">>
    \o ev.Against.Name \o <<" ">> \o TimeFormat(ev.Timestamp) \o <<")">>

\* the result of a generator that dereferenced a nil *Team
Panic == [panic |-> TRUE]

\* the loop of QuickestOwnGoal over the sorted events; no position is set
QuickestOwnGoalRankings(events, participants) ==
    [k \in DOMAIN events |->
        Rank(0, events[k].For.ImageURL,
             getSummaryFromTeamAndParticipant(events[k].For,
                 ParticipantCollection_GetByTeamID(participants, events[k].For.ID)),
             OwnGoalValue(events[k]))]

\* QuickestOwnGoal; ev.For.ImageURL and ev.Against.Name panic on a nil team
QuickestOwnGoal(s) ==
    IF s.nil THEN RankedPrize(quickestOwnGoal, <<>>)
    ELSE With(SliceStable(QuickestOwnGoalFrom(s.Tournament.Matches, 1, <<>>), "event"),
              LAMBDA events :
             IF \E k \in DOMAIN events : events[k].For.nil \/ events[k].Against.nil
             THEN Panic
             ELSE RankedPrize(quickestOwnGoal,
                              QuickestOwnGoalRankings(events, s.Participants)))

\* the prizes of a sweepstake
GeneratePrizes(s) ==
    [Winner |-> TournamentWinner(s),
     RunnerUp |-> TournamentRunnerUp(s),
     MostGoalsConceded |-> MostGoalsConceded(s),
     MostYellowCards |-> MostYellowCards(s),
     QuickestOwnGoal |-> QuickestOwnGoal(s)]

-----------------------------------------------------------------------------
(* The inputs the loaders are run on.                                      *)

GROUP == <<"G", "R", "O", "U", "P">>

\* a team as teams.json gives it, valid
ValidTeam(c) == Team(<<c>>, <<"n", c>>, <<"u", c>>)

\* teams as teams.json may give them
TeamInputs ==
    {Team(id, name, url) : id \in {<<>>, <<"A">>, <<" ", "A">>, <<"B">>},
                           name \in {<<" ">>, <<"n">>}, url \in {<<>>, <<"u">>}}

\* a data row with nothing wrong
BaseRow ==
    [MATCH_ID |-> <<"1">>, DATE |-> <<"D">>, TIME |-> <<"T">>, STAGE |-> GROUP,
     COMPLETED |-> <<"Y">>, WINNER_TEAM_ID |-> <<"A">>, HOME_TEAM_ID |-> <<"A">>,
     AWAY_TEAM_ID |-> <<"B">>, HOME_GOALS |-> <<"2">>, AWAY_GOALS |-> <<>>,
     HOME_YELLOW_CARDS |-> <<>>, AWAY_YELLOW_CARDS |-> <<"1">>,
     HOME_OG |-> <<>>, AWAY_OG |-> <<>>, HOME_RED_CARDS |-> <<>>,
     AWAY_RED_CARDS |-> <<>>]

\* the match ids, the team id fields <<home, away, winner>> and the parsed
\* fields that the rows of a matches file vary in
RowIds == {<<"1">>, <<"2">>, <<" ", "2">>, <<>>}

RowTeamIds ==
    {<<<<"A">>, <<"B">>, <<"A">>>>, <<<<"A">>, <<" ", "A">>, <<>>>>,
     <<<<>>, <<"B">>, <<"C">>>>}

RowParsedFields ==
    {[DATE |-> <<"D">>, TIME |-> <<"T">>, STAGE |-> GROUP, HOME_GOALS |-> <<"2">>,
      AWAY_OG |-> <<>>],
     [DATE |-> <<>>, TIME |-> <<>>, STAGE |-> <<"K", "O">>, HOME_GOALS |-> <<>>,
      AWAY_OG |-> <<"1", ";", "n", ":", "7">>],
     [DATE |-> <<"D">>, TIME |-> <<>>, STAGE |-> <<"X">>, HOME_GOALS |-> <<"x">>,
      AWAY_OG |-> <<"2", ";", "n", ":", "0", ";", "m">>]}

RowInputs ==
    {[BaseRow EXCEPT !.MATCH_ID = id, !.HOME_TEAM_ID = t[1], !.AWAY_TEAM_ID = t[2],
                     !.WINNER_TEAM_ID = t[3], !.DATE = f.DATE, !.TIME = f.TIME,
                     !.STAGE = f.STAGE, !.HOME_GOALS = f.HOME_GOALS, !.AWAY_OG = f.AWAY_OG]
        : id \in RowIds, t \in RowTeamIds, f \in RowParsedFields}

BadHeader == <<"ID", "DATE">>

RecordsInputs ==
    {[header |-> matchesCSVHeader, rows |-> r] : r \in SeqsUpTo(RowInputs, MaxRows)}
    \cup {[header |-> BadHeader, rows |-> <<BaseRow>>], [header |-> <<>>, rows |-> <<>>]}

\* the entries of an own-goal or red-card field: "m", and "n:<minute>" with
\* or without "+<offset>"
EventEntryInputs ==
    {<<"m">>, <<"n", ":", "0">>, <<"n", ":", "x">>, <<"n", ":", "7", "+">>}
    \cup {<<"n", ":">> \o minute \o offset
            : minute \in {<<"7">>, <<"2", "5", "6">>},
              offset \in {<<>>, <<"+", "2">>, <<"+", "0">>, <<"+", "2", "5", "6">>}}

\* the field "<count>;<entry>;<entry>..."
RECURSIVE EventsField(_, _)
EventsField(count, entries) ==
    IF entries = <<>> THEN count
    ELSE EventsField(count \o <<";">> \o Head(entries), Tail(entries))

EventFieldInputs ==
    {<<>>}
    \cup {EventsField(count, entries)
            : count \in {<<"1">>, <<"2">>, <<"x">>},
              entries \in SeqsUpTo(EventEntryInputs, MaxEvents)}

\* a matches file of one row that varies in its away own goals
EventRecordsInputs ==
    {[header |-> matchesCSVHeader, rows |-> <<[BaseRow EXCEPT !.AWAY_OG = f]>>]
        : f \in EventFieldInputs}

\* the rows of the matches file of a tournament: the team id fields vary,
\* the winner is nobody or the home team, the match id is the row number
TournamentRowInputs ==
    {[BaseRow EXCEPT !.HOME_TEAM_ID = h, !.AWAY_TEAM_ID = a, !.WINNER_TEAM_ID = w]
        : h \in {<<" ">>, <<"A">>, <<"B">>, <<"C">>}, a \in {<<>>, <<"B">>},
          w \in {"none", "home"}}

Numbered(rows) ==
    [i \in DOMAIN rows |->
        [rows[i] EXCEPT !.MATCH_ID = ItoaChars(i),
                        !.WINNER_TEAM_ID = IF @ = "home" THEN rows[i].HOME_TEAM_ID ELSE <<>>]]

TournamentRecordsInputs ==
    {[header |-> matchesCSVHeader, rows |-> Numbered(r)]
        : r \in SeqsUpTo(TournamentRowInputs, MaxTournamentMatches)}

TournamentTeamsInputs ==
    {<<ValidTeam("A"), ValidTeam("B")>>, <<ValidTeam("A"), ValidTeam("B"), ValidTeam("C")>>}

\* a tournament as tournament.json gives it
Config(id) ==
    [ID |-> id, Name |-> <<"n">>, ImageURL |-> <<"u">>, Teams |-> <<>>, Matches |-> <<>>]

ConfigInputs == {Config(<<"T">>), Config(<<" ">>)}

\* tournaments as the loaders of NewTournamentCollection return them
TournamentInputs ==
    {[Config(id) EXCEPT !.Teams = <<ValidTeam("A"), ValidTeam("B")>>]
        : id \in {<<"T">>, <<"U">>, <<"V">>}}

\* a loaded tournament with these teams
LoadedTournament(teamList) == [Config(<<"T">>) EXCEPT !.Teams = teamList]

Participant(teamID) == [TeamID |-> teamID, Name |-> <<"p">>]

ParticipantTeamIds == {<<"A">>, <<" ", "A">>, <<"B">>, <<"C">>, <<"D">>}

\* one sweepstake, varying in its participants
OneSweepstakeInputs ==
    {[ID |-> <<"s">>, Name |-> name, ImageURL |-> <<"u">>,
      Tournament |-> LoadedTournament(teamList),
      Participants |-> [i \in DOMAIN ids |-> Participant(ids[i])]]
        : name \in {<<"n">>, <<" ">>}, teamList \in TournamentTeamsInputs,
          ids \in SeqsUpTo(ParticipantTeamIds, MaxParticipants)}

\* sweepstakes of a collection, varying in their ids
CollectionSweepstakeInputs ==
    {[ID |-> id, Name |-> <<"n">>, ImageURL |-> <<"u">>,
      Tournament |-> LoadedTournament(<<ValidTeam("A"), ValidTeam("B")>>),
      Participants |-> [i \in DOMAIN ids |-> Participant(ids[i])]]
        : id \in {<<"s">>, <<"s", " ">>, <<"t">>},
          ids \in {<<<<"A">>, <<"B">>>>, <<<<"A">>>>}}

\* the side of a match: a team with its goals, yellow cards and own goals
Competitor(team, goals, yellowCards, events) ==
    [Team |-> team, Goals |-> goals, YellowCards |-> yellowCards,
     OwnGoals |-> events, RedCards |-> <<>>]

\* a match as LoadTournament leaves it: the teams are nil or teams of the
\* tournament, the winner is nobody, the home team or the away team
PrizeMatch(id, completed, home, away, winner) ==
    [ID |-> id, Timestamp |-> 1, Stage |-> GroupStage, Home |-> home, Away |-> away,
     Winner |-> (CASE winner = "home" -> home.Team
                   [] winner = "away" -> away.Team
                   [] OTHER -> NilTeam),
     Completed |-> completed]

NilSweepstake == [nil |-> TRUE]

\* a sweepstake as LoadSweepstakes leaves it, with these matches
PrizeSweepstake(teamList, ms, participants) ==
    [nil |-> FALSE, ID |-> <<"s">>, Name |-> <<"n">>, ImageURL |-> <<"u">>,
     Tournament |-> [LoadedTournament(teamList) EXCEPT !.Matches = ms],
     Participants |-> participants]

\* the participants of teams A and B: the team has no participant, one
\* without name or one with a name
PrizeParticipantInputs ==
    {a \o b : a \in {<<>>, <<[TeamID |-> <<"A">>, Name |-> <<>>]>>,
                      <<[TeamID |-> <<"A">>, Name |-> <<"p">>]>>},
              b \in {<<>>, <<[TeamID |-> <<"B">>, Name |-> <<>>]>>,
                      <<[TeamID |-> <<"B">>, Name |-> <<"q">>]>>}}

\* the Final, and match 1 that B won
FinalInputs ==
    {PrizeMatch(finalMatchID, completed, Competitor(home, 0, 0, <<>>),
                Competitor(away, 0, 0, <<>>), winner)
        : completed \in BOOLEAN, home \in {NilTeam, ValidTeam("A")},
          away \in {NilTeam, ValidTeam("B")}, winner \in {"none", "home", "away"}}

MatchOne ==
    PrizeMatch(<<"1">>, TRUE, Competitor(ValidTeam("A"), 0, 0, <<>>),
               Competitor(ValidTeam("B"), 0, 0, <<>>), "away")

\* the teams and the participants of the sweepstakes handed to the ranked
\* prizes: A has a named participant, B one without name, C none
RankedTeams == <<ValidTeam("A"), ValidTeam("B"), ValidTeam("C")>>

RankedParticipants ==
    <<[TeamID |-> <<"A">>, Name |-> <<"p">>], [TeamID |-> <<"B">>, Name |-> <<>>]>>

\* <<home goals, away goals, home yellow cards, away yellow cards>>
ScoreInputs == {<<2, 1, 1, 0>>, <<1, 1, 0, 2>>, <<0, 2, 1, 1>>}

TotalsMatchInputs ==
    {PrizeMatch(<<>>, completed, Competitor(pair[1], score[1], score[3], <<>>),
                Competitor(pair[2], score[2], score[4], <<>>), "none")
        : completed \in BOOLEAN,
          pair \in {<<ValidTeam("A"), ValidTeam("B")>>, <<ValidTeam("C"), ValidTeam("A")>>,
                    <<ValidTeam("B"), NilTeam>>},
          score \in ScoreInputs}

\* the matches with the row number as id
NumberedMatches(ms) == [i \in DOMAIN ms |-> [ms[i] EXCEPT !.ID = ItoaChars(i)]]

TotalsSweepstakeInputs ==
    {NilSweepstake}
    \cup {PrizeSweepstake(RankedTeams, NumberedMatches(ms), RankedParticipants)
            : ms \in SeqsUpTo(TotalsMatchInputs, MaxPrizeMatches)}

MatchEvent(name, minute, offset) == [Name |-> <<name>>, Minute |-> minute, Offset |-> offset]

\* <<home own goals, away own goals>>
OwnGoalInputs ==
    {<< <<MatchEvent("h", 7, 0)>>, <<MatchEvent("a", 7, 0)>> >>,
     << <<MatchEvent("h", 45, 2), MatchEvent("g", 45, 0)>>, <<MatchEvent("a", 7, 0)>> >>,
     << <<>>, <<MatchEvent("a", 45, 2), MatchEvent("b", 45, 1)>> >>}

OwnGoalMatchInputs ==
    {PrizeMatch(<<>>, completed, Competitor(pair[1], 0, 0, og[1]),
                Competitor(pair[2], 0, 0, og[2]), "none")
        : completed \in BOOLEAN,
          pair \in {<<ValidTeam("A"), ValidTeam("B")>>, <<ValidTeam("C"), ValidTeam("A")>>,
                    <<ValidTeam("B"), NilTeam>>},
          og \in OwnGoalInputs}

OwnGoalSweepstakeInputs ==
    {NilSweepstake}
    \cup {PrizeSweepstake(RankedTeams, NumberedMatches(ms), RankedParticipants)
            : ms \in SeqsUpTo(OwnGoalMatchInputs, MaxPrizeMatches)}

\* matches that differ in their teams, winner, goals, cards, own goals and
\* timestamp
MatchDataInputs ==
    {PrizeMatch(<<>>, TRUE, Competitor(ValidTeam("A"), 2, 1, <<MatchEvent("h", 7, 0)>>),
                Competitor(ValidTeam("B"), 1, 0, <<>>), "home"),
     [PrizeMatch(<<>>, TRUE, Competitor(ValidTeam("C"), 0, 0, <<>>),
                 Competitor(ValidTeam("A"), 2, 2, <<MatchEvent("a", 45, 2)>>), "away")
         EXCEPT !.Timestamp = 2],
     PrizeMatch(<<>>, TRUE, Competitor(ValidTeam("B"), 1, 1, <<MatchEvent("g", 7, 0)>>),
                Competitor(NilTeam, 1, 1, <<>>), "none")}

\* a match of both sweepstakes of a pair: completed and the same in both, or
\* not completed and with data of its own in each
MatchPairInputs ==
    {<<d, d>> : d \in MatchDataInputs}
    \cup {<<[d1 EXCEPT !.Completed = FALSE], [d2 EXCEPT !.Completed = FALSE]>>
            : d1 \in MatchDataInputs, d2 \in MatchDataInputs}

\* the ids of the n matches of a tournament: the Final is the first match,
\* the last match or no match
Ids(n, final) ==
    [i \in 1..n |-> IF (final = "first" /\ i = 1) \/ (final = "last" /\ i = n)
                    THEN finalMatchID ELSE ItoaChars(i)]

WithIds(ms, ids) == [i \in DOMAIN ms |-> [ms[i] EXCEPT !.ID = ids[i]]]

\* two sweepstakes that are equal except for the data of the matches that are
\* not completed
SweepstakePair(ps, ids) ==
    <<PrizeSweepstake(RankedTeams, WithIds([i \in DOMAIN ps |-> ps[i][1]], ids),
                      RankedParticipants),
      PrizeSweepstake(RankedTeams, WithIds([i \in DOMAIN ps |-> ps[i][2]], ids),
                      RankedParticipants)>>

SweepstakePairInputs ==
    {SweepstakePair(ps, Ids(Len(ps), final))
        : ps \in SeqsUpTo(MatchPairInputs, MaxPrizeMatches) \ {<<>>},
          final \in {"none", "first", "last"}}

OutrightSweepstakeInputs ==
    {NilSweepstake}
    \cup {PrizeSweepstake(<<ValidTeam("A"), ValidTeam("B")>>, ms, ps)
            : ms \in {<<>>, <<MatchOne>>}
                      \cup {<<f>> : f \in FinalInputs}
                      \cup {<<MatchOne, f>> : f \in FinalInputs}
                      \cup {<<f, MatchOne>> : f \in FinalInputs},
              ps \in PrizeParticipantInputs}

-----------------------------------------------------------------------------
(* The state machine: a loader or validator is run on an input.            *)

NoRecords == [header |-> <<>>, rows |-> <<>>]

NoTeams == teams = <<>> /\ teamsOut = NoOut
NoMatches == records = NoRecords /\ matches = <<>> /\ matchesOut = NoOut
NoTournament == tournament = Config(<<>>) /\ tournamentOut = NoOut
NoTournaments == tournaments = <<>> /\ tournamentsOut = NoOut
NoSweepstakes == sweepstakes = <<>> /\ sweepstakesOut = NoOut
NoPrizes == prizeSweepstakes = <<>> /\ prizes = <<>>
NoAggregator == mErr = NewMultiError /\ added = <<>>
NoRef == ref = NilTeam /\ refErr = NilError
NoAudit == audit = <<>> /\ acks = <<>>
NoCalls == loaders = <<>> /\ called = <<>>
NoUnits == NoAggregator /\ NoRef /\ NoAudit /\ NoCalls

InitTeams ==
    /\ pc = "teams"
    /\ teams \in SeqsUpTo(TeamInputs, MaxTeams) /\ teamsOut = NoOut
    /\ NoMatches /\ NoTournament /\ NoTournaments /\ NoSweepstakes
    /\ NoPrizes
    /\ NoUnits

InitMatches ==
    /\ pc = "matches"
    /\ records \in RecordsInputs /\ matches = <<>> /\ matchesOut = NoOut
    /\ NoTeams /\ NoTournament /\ NoTournaments /\ NoSweepstakes
    /\ NoPrizes
    /\ NoUnits

InitEvents ==
    /\ pc = "matches"
    /\ records \in EventRecordsInputs /\ matches = <<>> /\ matchesOut = NoOut
    /\ NoTeams /\ NoTournament /\ NoTournaments /\ NoSweepstakes
    /\ NoPrizes
    /\ NoUnits

NoLoaders ==
    NoTeams /\ NoMatches /\ NoTournament /\ NoTournaments /\ NoSweepstakes

InitOutright ==
    /\ pc = "prizes"
    /\ prizeSweepstakes \in {<<s>> : s \in OutrightSweepstakeInputs} /\ prizes = <<>>
    /\ NoLoaders
    /\ NoUnits

InitTotals ==
    /\ pc = "prizes"
    /\ prizeSweepstakes \in {<<s>> : s \in TotalsSweepstakeInputs} /\ prizes = <<>>
    /\ NoLoaders
    /\ NoUnits

InitOwnGoals ==
    /\ pc = "prizes"
    /\ prizeSweepstakes \in {<<s>> : s \in OwnGoalSweepstakeInputs} /\ prizes = <<>>
    /\ NoLoaders
    /\ NoUnits

InitPairs ==
    /\ pc = "prizes"
    /\ prizeSweepstakes \in SweepstakePairInputs /\ prizes = <<>>
    /\ NoLoaders
    /\ NoUnits

InitTournament ==
    /\ pc = "tournament"
    /\ teams \in TournamentTeamsInputs /\ teamsOut = NoOut
    /\ records \in TournamentRecordsInputs /\ matches = <<>> /\ matchesOut = NoOut
    /\ tournament \in ConfigInputs /\ tournamentOut = NoOut
    /\ NoTournaments /\ NoSweepstakes
    /\ NoPrizes
    /\ NoUnits

InitTournaments ==
    /\ pc = "tournaments"
    /\ tournaments \in SeqsUpTo(TournamentInputs, MaxTournaments)
    /\ tournamentsOut = NoOut
    /\ NoTeams /\ NoMatches /\ NoTournament /\ NoSweepstakes
    /\ NoPrizes
    /\ NoUnits

InitOneSweepstake ==
    /\ pc = "sweepstakes"
    /\ sweepstakes \in {<<s>> : s \in OneSweepstakeInputs} /\ sweepstakesOut = NoOut
    /\ NoTeams /\ NoMatches /\ NoTournament /\ NoTournaments
    /\ NoPrizes
    /\ NoUnits

InitSweepstakeCollection ==
    /\ pc = "sweepstakes"
    /\ sweepstakes \in SeqsUpTo(CollectionSweepstakeInputs, MaxSweepstakes) \ {<<>>}
    /\ sweepstakesOut = NoOut
    /\ NoTeams /\ NoMatches /\ NoTournament /\ NoTournaments
    /\ NoPrizes
    /\ NoUnits

\* TeamsJSONLoader.LoadTeams from the decoded teams on: validateTeams
DoValidateTeams ==
    /\ pc = "teams"
    /\ \E out \in {validateTeams(teams)} : teams' = out.built /\ teamsOut' = out
    /\ pc' = "done"
    /\ UNCHANGED <<records, matches, matchesOut, tournament, tournamentOut,
                   tournaments, tournamentsOut, sweepstakes, sweepstakesOut>>
    /\ UNCHANGED <<prizeSweepstakes, prizes>>
    /\ UNCHANGED unitVars

\* MatchesCSVLoader.LoadMatches from the records read on
DoLoadMatches ==
    /\ pc = "matches"
    /\ \E out \in {LoadMatches(records)} : matches' = out.built /\ matchesOut' = out
    /\ pc' = "done"
    /\ UNCHANGED <<teams, teamsOut, records, tournament, tournamentOut,
                   tournaments, tournamentsOut, sweepstakes, sweepstakesOut>>
    /\ UNCHANGED <<prizeSweepstakes, prizes>>
    /\ UNCHANGED unitVars

\* TournamentFSLoader.LoadTournament from the decoded config on
DoLoadTournament ==
    /\ pc = "tournament"
    /\ \E order \in Orders(AuditKeys(teams)) :
        \E r \in {LoadTournament(tournament, teams, records, order)} :
            /\ teams' = r.teams.built /\ teamsOut' = r.teams
            /\ matches' = (IF r.ranMatches THEN r.matches.built ELSE matches)
            /\ matchesOut' = (IF r.ranMatches THEN r.matches ELSE matchesOut)
            /\ tournament' = r.out.built /\ tournamentOut' = r.out
    /\ pc' = "done"
    /\ UNCHANGED <<records, tournaments, tournamentsOut, sweepstakes, sweepstakesOut>>
    /\ UNCHANGED <<prizeSweepstakes, prizes>>
    /\ UNCHANGED unitVars

\* NewTournamentCollection from the loaded tournaments on: validateTournaments
DoValidateTournaments ==
    /\ pc = "tournaments"
    /\ tournamentsOut' = validateTournaments(tournaments)
    /\ pc' = "done"
    /\ UNCHANGED <<teams, teamsOut, records, matches, matchesOut, tournament,
                   tournamentOut, tournaments, sweepstakes, sweepstakesOut>>
    /\ UNCHANGED <<prizeSweepstakes, prizes>>
    /\ UNCHANGED unitVars

\* SweepstakesJSONLoader.LoadSweepstakes from the inflated collection on:
\* validateSweepstakes
DoValidateSweepstakes ==
    /\ pc = "sweepstakes"
    /\ \E orders \in [DOMAIN sweepstakes ->
                        UNION {Orders(AuditKeys(s.Tournament.Teams)) :
                                  s \in {sweepstakes[i] : i \in DOMAIN sweepstakes}}] :
        /\ \A i \in DOMAIN sweepstakes :
              orders[i] \in Orders(AuditKeys(sweepstakes[i].Tournament.Teams))
        /\ \E out \in {validateSweepstakes(sweepstakes, orders)} :
              sweepstakes' = out.built /\ sweepstakesOut' = out
    /\ pc' = "done"
    /\ UNCHANGED <<teams, teamsOut, records, matches, matchesOut, tournament,
                   tournamentOut, tournaments, tournamentsOut>>
    /\ UNCHANGED <<prizeSweepstakes, prizes>>
    /\ UNCHANGED unitVars

\* the prize generators that GenerateMarkup calls, on each sweepstake
DoGeneratePrizes ==
    /\ pc = "prizes"
    /\ prizes' = [i \in DOMAIN prizeSweepstakes |-> GeneratePrizes(prizeSweepstakes[i])]
    /\ pc' = "done"
    /\ UNCHANGED <<teams, teamsOut, records, matches, matchesOut, tournament,
                   tournamentOut, tournaments, tournamentsOut, sweepstakes,
                   sweepstakesOut, prizeSweepstakes>>
    /\ UNCHANGED unitVars

SpecTeams == InitTeams /\ [][DoValidateTeams]_vars

SpecMatches == InitMatches /\ [][DoLoadMatches]_vars

SpecEvents == InitEvents /\ [][DoLoadMatches]_vars

SpecOutright == InitOutright /\ [][DoGeneratePrizes]_vars

SpecTotals == InitTotals /\ [][DoGeneratePrizes]_vars

SpecOwnGoals == InitOwnGoals /\ [][DoGeneratePrizes]_vars

SpecPairs == InitPairs /\ [][DoGeneratePrizes]_vars

SpecTournament == InitTournament /\ [][DoLoadTournament]_vars

InitSweepstakes == InitOneSweepstake \/ InitSweepstakeCollection

SpecSweepstakes == InitSweepstakes /\ [][DoValidateSweepstakes]_vars

InitCollections == InitMatches \/ InitTournaments \/ InitSweepstakeCollection

NextCollections == DoLoadMatches \/ DoValidateTournaments \/ DoValidateSweepstakes

SpecCollections == InitCollections /\ [][NextCollections]_vars

\* the team lists validateTeams accepts, and the references handed to
\* populateTeamByID: nil, an id alone, a team of a list, a team with the id of
\* one and fields of its own
EnrichTeamsInputs ==
    {tl \in SeqsUpTo({ValidTeam("A"), ValidTeam("B"), ValidTeam("C")}, MaxTeams) :
        \A i, j \in DOMAIN tl : tl[i].ID = tl[j].ID => i = j}

RefInputs ==
    {NilTeam, Team(<<>>, <<>>, <<>>), Team(<<"A">>, <<"x">>, <<"y">>)}
    \cup {Placeholder(<<c>>) : c \in {"A", "B", "C"}}
    \cup {ValidTeam(c) : c \in {"A", "B", "C"}}

InitEnrich ==
    /\ pc = "enrich"
    /\ teams \in EnrichTeamsInputs /\ teamsOut = NoOut
    /\ ref \in RefInputs /\ refErr = NilError
    /\ NoMatches /\ NoTournament /\ NoTournaments /\ NoSweepstakes /\ NoPrizes
    /\ NoAggregator /\ NoAudit /\ NoCalls

\* populateTeamByID on the reference, a first and a second time
DoPopulateTeamByID ==
    /\ pc \in {"enrich", "enriched"}
    /\ \E r \in {populateTeamByID(ref, teams)} : ref' = r.val /\ refErr' = r.err
    /\ pc' = (IF pc = "enrich" THEN "enriched" ELSE "done")
    /\ UNCHANGED <<teams, teamsOut, records, matches, matchesOut, tournament,
                   tournamentOut, tournaments, tournamentsOut, sweepstakes,
                   sweepstakesOut, prizeSweepstakes, prizes, mErr, added, audit, acks,
                   loaders, called>>

SpecEnrich == InitEnrich /\ [][DoPopulateTeamByID]_vars

InitPrizes == InitOutright \/ InitTotals \/ InitOwnGoals \/ InitPairs

\* the prefixes views are made with and the errors handed to Add
PrefixInputs == {"", "p"}
ErrorInputs == {NilError, "e", "f"}

InitAggregator ==
    /\ pc = "add"
    /\ mErr = NewMultiError /\ added = <<>>
    /\ NoLoaders /\ NoPrizes /\ NoRef /\ NoAudit /\ NoCalls

\* what an Add call leaves alone
AddFrame ==
    UNCHANGED <<pc, teams, teamsOut, records, matches, matchesOut, tournament,
                tournamentOut, tournaments, tournamentsOut, sweepstakes,
                sweepstakesOut, prizeSweepstakes, prizes, ref, refErr, audit, acks,
                loaders, called>>

\* Add on the aggregator itself
DoAdd ==
    /\ pc = "add" /\ Len(added) < MaxAdds
    /\ \E err \in ErrorInputs :
          /\ mErr' = multiErr_Add(mErr, err)
          /\ added' = Append(added, [prefixes |-> <<>>, err |-> err])
    /\ AddFrame

\* Add on a view of the aggregator
DoViewAdd ==
    /\ pc = "add" /\ Len(added) < MaxAdds
    /\ \E p \in PrefixInputs, err \in ErrorInputs :
          /\ mErr' = multiErrWithPrefix_Add(mErr, multiErr_WithPrefix(p), err)
          /\ added' = Append(added, [prefixes |-> <<p>>, err |-> err])
    /\ AddFrame

\* Add on a view of a view of the aggregator
DoNestedViewAdd ==
    /\ pc = "add" /\ Len(added) < MaxAdds
    /\ \E p1 \in PrefixInputs, p2 \in PrefixInputs, err \in ErrorInputs :
          /\ mErr' = multiErrWithPrefix_Add(mErr,
                        multiErrWithPrefix_WithPrefix(multiErr_WithPrefix(p1), p2), err)
          /\ added' = Append(added, [prefixes |-> <<p1, p2>>, err |-> err])
    /\ AddFrame

SpecAggregator == InitAggregator /\ [][DoAdd \/ DoViewAdd \/ DoNestedViewAdd]_vars

\* the teams handed to ack: nil, and teams that are or are not of the list
AckInputs == {NilTeam, ValidTeam("A"), ValidTeam("B"), ValidTeam("C")}

\* a teamsAudit over a validated team list, its map not yet created
InitAudit ==
    /\ pc = "audit"
    /\ teams \in EnrichTeamsInputs /\ teamsOut = NoOut
    /\ audit = <<>> /\ acks = <<>>
    /\ NoMatches /\ NoTournament /\ NoTournaments /\ NoSweepstakes /\ NoPrizes
    /\ NoAggregator /\ NoRef /\ NoCalls

AuditFrame ==
    UNCHANGED <<teams, teamsOut, records, matches, matchesOut, tournament,
                tournamentOut, tournaments, tournamentsOut, sweepstakes,
                sweepstakesOut, prizeSweepstakes, prizes, added, ref, refErr,
                loaders, called>>

\* teamsAudit.ack
DoAck ==
    /\ pc = "audit" /\ Len(acks) < MaxAcks
    /\ \E team \in AckInputs :
         \E r \in {teamsAudit_ack(teams, audit, team)} :
            /\ audit' = r.mp
            /\ acks' = Append(acks, [team |-> team, ok |-> r.ok])
    /\ UNCHANGED <<pc, mErr>>
    /\ AuditFrame

\* teamsAudit.validate in the mode of validateSweepstake (exactly once) or of
\* validateTournament (at least once); Range visits the keys in any order
DoAuditValidate ==
    /\ pc = "audit"
    /\ \E exactlyOnce \in BOOLEAN :
         \E m \in {teamsAudit_init(teams, audit)} :
         \E order \in Orders(DOMAIN m) :
            /\ mErr' = teamsAudit_validate(teams, audit, mErr, <<>>, exactlyOnce, order)
            /\ audit' = m
            /\ pc' = (IF exactlyOnce THEN "exactly once" ELSE "at least once")
    /\ UNCHANGED acks
    /\ AuditFrame

SpecAudit == InitAudit /\ [][DoAck \/ DoAuditValidate]_vars

\* what the goals and yellow cards fields of a row may hold
CountFieldInputs ==
    {<<>>, <<"0">>, <<"7">>, <<"2", "5", "5">>, <<"2", "5", "6">>, <<"-", "1">>, <<"x">>}

\* a matches file of one row that varies in three of its counts
InitCounts ==
    /\ pc = "matches"
    /\ records \in {[header |-> matchesCSVHeader,
                      rows |-> <<[BaseRow EXCEPT !.HOME_GOALS = hg, !.AWAY_GOALS = ag,
                                                 !.AWAY_YELLOW_CARDS = ay]>>]
                        : hg \in CountFieldInputs, ag \in CountFieldInputs,
                          ay \in CountFieldInputs}
    /\ matches = <<>> /\ matchesOut = NoOut
    /\ NoTeams /\ NoTournament /\ NoTournaments /\ NoSweepstakes
    /\ NoPrizes
    /\ NoUnits

SpecCounts == InitCounts /\ [][DoLoadMatches]_vars

\* matches between A and B, one of which may lack a team, with own goals
AcceptedMatchInputs ==
    {PrizeMatch(<<>>, completed, Competitor(pair[1], 0, 0, og[1]),
                Competitor(pair[2], 0, 0, og[2]), "none")
        : completed \in BOOLEAN,
          pair \in {<<ValidTeam("A"), ValidTeam("B")>>, <<ValidTeam("B"), ValidTeam("A")>>,
                    <<ValidTeam("B"), NilTeam>>, <<NilTeam, ValidTeam("A")>>},
          og \in OwnGoalInputs}

\* sweepstakes on the teams A and B, each with one participant
AcceptedSweepstakeInputs ==
    {PrizeSweepstake(<<ValidTeam("A"), ValidTeam("B")>>, NumberedMatches(ms),
                     RankedParticipants)
        : ms \in SeqsUpTo(AcceptedMatchInputs, MaxPrizeMatches)}

InitAccepted ==
    /\ pc = "prizes"
    /\ prizeSweepstakes \in {<<s>> : s \in AcceptedSweepstakeInputs} /\ prizes = <<>>
    /\ NoLoaders
    /\ NoUnits

SpecAccepted == InitAccepted /\ [][DoGeneratePrizes]_vars

\* what a loader returns: a tournament, or no tournament and an error
LoaderInputs ==
    {[tournament |-> t, err |-> NilError] : t \in TournamentInputs}
    \cup {[tournament |-> <<>>, err |-> e] : e \in {"sad times", "no file"}}

InitLoading ==
    /\ loaders \in SeqsUpTo(LoaderInputs, MaxTournaments) /\ called = <<>>
    /\ pc = (IF loaders = <<>> THEN "tournaments" ELSE "loading")
    /\ tournaments = <<>> /\ tournamentsOut = NoOut
    /\ NoTeams /\ NoMatches /\ NoTournament /\ NoSweepstakes
    /\ NoPrizes
    /\ NoAggregator /\ NoRef /\ NoAudit

\* NewTournamentCollection: the call of the next loader of the list, and the
\* return at once when it failed
DoCallLoader ==
    /\ pc = "loading" /\ Len(called) < Len(loaders)
    /\ \E idx \in {Len(called) + 1} :
         \E r \in {NewTournamentCollection_call(tournaments, idx, loaders[idx])} :
            /\ called' = Append(called, idx)
            /\ tournaments' = r.tournaments
            /\ tournamentsOut' = r.out
            /\ pc' = (IF r.failed THEN "done"
                      ELSE IF idx = Len(loaders) THEN "tournaments" ELSE "loading")
    /\ UNCHANGED <<teams, teamsOut, records, matches, matchesOut, tournament,
                   tournamentOut, sweepstakes, sweepstakesOut, prizeSweepstakes, prizes,
                   mErr, added, ref, refErr, audit, acks, loaders>>

SpecLoading == InitLoading /\ [][DoCallLoader \/ DoValidateTournaments]_vars

InitUnits == InitEnrich \/ InitAggregator \/ InitAudit

Init ==
    \/ InitTeams \/ InitMatches \/ InitEvents \/ InitCounts \/ InitTournament
    \/ InitLoading \/ InitTournaments \/ InitSweepstakes \/ InitPrizes \/ InitAccepted
    \/ InitUnits

Next ==
    \/ DoValidateTeams
    \/ DoLoadMatches
    \/ DoLoadTournament
    \/ DoValidateTournaments
    \/ DoValidateSweepstakes
    \/ DoGeneratePrizes
    \/ DoPopulateTeamByID
    \/ DoAdd
    \/ DoViewAdd
    \/ DoNestedViewAdd
    \/ DoAck
    \/ DoAuditValidate
    \/ DoCallLoader

Spec == Init /\ [][Next]_vars

-----------------------------------------------------------------------------
(* What the package promises.                                              *)

\* an error of the list
Listed(errs) == {errs[i] : i \in DOMAIN errs}

\* the ids of the teams of a team list
TeamIds(teamList) == {teamList[i].ID : i \in DOMAIN teamList}

\* the participant errors validateSweepstake can add for a sweepstake as it
\* stands after validation
ParticipantErrors(s) ==
    {"participant index " \o Itoa(i - 1) \o ": unrecognised participant team id: "
        \o Join(s.Participants[i].TeamID) : i \in DOMAIN s.Participants}

\* the team-count errors an audit of the team list can add when no counter
\* exceeds max
TeamCountErrors(teamList, max) ==
    {Join(TeamCountChars(id, n)) : id \in TeamIds(teamList), n \in 0..max}

\* the participants of a sweepstake that claim the team id
Claimants(s, id) == {i \in DOMAIN s.Participants : s.Participants[i].TeamID = id}

\* every participant names a tournament team, every tournament team is
\* named by exactly one participant
ExactCovering(s) ==
    /\ \A i \in DOMAIN s.Participants : s.Participants[i].TeamID \in TeamIds(s.Tournament.Teams)
    /\ \A id \in TeamIds(s.Tournament.Teams) : Cardinality(Claimants(s, id)) = 1

\* validateSweepstake added a participant error or a team-count error
ParticipantOrCountError(s, errs) ==
    Listed(errs) \cap (ParticipantErrors(s)
                       \cup TeamCountErrors(s.Tournament.Teams, Len(s.Participants))) # {}

RanOneSweepstake == pc = "done" /\ Len(sweepstakes) = 1

\* C1: validateSweepstake adds no participant error and no team-count error
\* exactly when every participant's trimmed team id is the id of a tournament
\* team and every tournament team is the team of exactly one participant.
C1_ExactCovering ==
    RanOneSweepstake =>
        (~ParticipantOrCountError(sweepstakes[1], sweepstakesOut.errs)
            <=> ExactCovering(sweepstakes[1]))

\* a sweepstake of three teams, each claimed by one participant, validated
\* without any error
C1_Witness ==
    /\ RanOneSweepstake
    /\ Len(sweepstakes[1].Tournament.Teams) = 3
    /\ ExactCovering(sweepstakes[1])
    /\ sweepstakesOut.errNil

\* what ran, read off what was returned: a failure outside the validator
\* carries a text of its own
RanValidateMatches == pc = "done" /\ matchesOut # NoOut /\ matchesOut.msg = ""
RanValidateTournaments == pc = "done" /\ tournamentsOut # NoOut
RanValidateSweepstakes == pc = "done" /\ sweepstakesOut # NoOut

\* the collection with a nil error, or no collection with an aggregate of at
\* least one error
ValidatorOutcome(out) ==
    \/ ~out.collNil /\ out.errNil
    \/ out.collNil /\ ~out.errNil /\ out.aggregate /\ Len(out.errs) >= 1

\* C2: validateMatches, validateTournaments and validateSweepstakes each
\* return either the collection with a nil error or no collection with an
\* aggregate of at least one error, never an empty aggregate and never a
\* collection together with an error.
C2_ValidatorOutcomes ==
    /\ RanValidateMatches => ValidatorOutcome(matchesOut)
    /\ RanValidateTournaments => ValidatorOutcome(tournamentsOut)
    /\ RanValidateSweepstakes => ValidatorOutcome(sweepstakesOut)

\* validateMatches ran on two parsed matches and found nothing wrong
C2_Witness ==
    /\ RanValidateMatches
    /\ matchesOut.errNil
    /\ Len(matchesOut.coll) = 2

\* the row as transformCSVRowToMatch parses it on its own
ParsedRow(recs, n) ==
    transformCSVRowToMatch(recs.rows[n], NewMultiError, <<"row " \o Itoa(n)>>)

\* the rows that parse without an error
CleanRows(recs) == {n \in DOMAIN recs.rows : multiErr_IsEmpty(ParsedRow(recs, n).errs)}

\* the parse errors of all rows
ParseErrors(recs) == UNION {Listed(ParsedRow(recs, n).errs) : n \in DOMAIN recs.rows}

\* the entity-validation errors of the rows that parse without an error
EntityErrors(recs) ==
    UNION {Listed(validateMatch(ParsedRow(recs, n).val, NewMultiError,
                                <<"index " \o Itoa(n - 1)>>).errs)
           \cup {"index " \o Itoa(n - 1) \o ": id '" \o Join(Trim(recs.rows[n].MATCH_ID))
                    \o "': " \o ErrIsDuplicate
                  : j \in {k \in 1..(n - 1) :
                              Trim(recs.rows[k].MATCH_ID) = Trim(recs.rows[n].MATCH_ID)}}
           : n \in CleanRows(recs)}

\* C3: when LoadMatches fails because of rule violations, its error lists
\* the parse errors of every row together with the entity-validation errors
\* of every row.
C3_ListsEverything ==
    pc = "done" /\ matchesOut.aggregate =>
        ParseErrors(records) \cup EntityErrors(records) \subseteq Listed(matchesOut.errs)

RanValidateTournament == pc = "done" /\ tournamentOut # NoOut /\ tournamentOut.msg = ""

\* the team slots of the matches of a tournament that are not nil
Slots(trn) ==
    {trn.Matches[i].Home.Team : i \in DOMAIN trn.Matches}
    \cup {trn.Matches[i].Away.Team : i \in DOMAIN trn.Matches}
    \cup {trn.Matches[i].Winner : i \in DOMAIN trn.Matches}

\* C4: if validateTournament adds no error, every non-nil home team, away
\* team and winner of every match is a team of the tournament's team list,
\* with its name and image URL.
C4_Enriched ==
    RanValidateTournament /\ tournamentOut.errNil =>
        \A t \in Slots(tournament) :
            ~t.nil => \E i \in DOMAIN tournament.Teams : tournament.Teams[i] = t

\* the number of matches of the tournament in which the team is home or away
Appearances(trn, id) ==
    Cardinality({i \in DOMAIN trn.Matches :
                    ~trn.Matches[i].Home.Team.nil /\ trn.Matches[i].Home.Team.ID = id})
    + Cardinality({i \in DOMAIN trn.Matches :
                      ~trn.Matches[i].Away.Team.nil /\ trn.Matches[i].Away.Team.ID = id})

\* a team-count error for the team is listed
CountReported(trn, id, errs) ==
    \E n \in 0..(2 * Len(trn.Matches)) : Join(TeamCountChars(id, n)) \in Listed(errs)

\* C5: validateTournament reports a team-count error for a tournament team
\* exactly when that team is the home or away team of no match; a team of two
\* or more matches is not reported.
C5_AtLeastOnce ==
    RanValidateTournament =>
        \A id \in TeamIds(tournament.Teams) :
            CountReported(tournament, id, tournamentOut.errs)
                <=> Appearances(tournament, id) = 0

\* a tournament was validated in which one team is in two matches and
\* another in none
C5_Witness ==
    /\ RanValidateTournament
    /\ \E id \in TeamIds(tournament.Teams) : Appearances(tournament, id) >= 2
    /\ \E id \in TeamIds(tournament.Teams) :
          /\ Appearances(tournament, id) = 0
          /\ CountReported(tournament, id, tournamentOut.errs)

\* how often the error is listed
Count(errs, err) == Cardinality({k \in DOMAIN errs : errs[k] = err})

\* the elements before element i that have its id
Earlier(coll, i) == {j \in 1..(i - 1) : coll[j].ID = coll[i].ID}

\* C6: validateMatches and validateTournaments add exactly one 'is duplicate'
\* error for every element whose id equals the id of an earlier element,
\* wherever the two stand, and none for any other element.
C6_Duplicates ==
    /\ RanValidateMatches =>
          \A i \in DOMAIN matches :
              Count(matchesOut.errs,
                    "index " \o Itoa(i - 1) \o ": id '" \o Join(matches[i].ID) \o "': "
                        \o ErrIsDuplicate)
                  = IF Earlier(matches, i) # {} THEN 1 ELSE 0
    /\ RanValidateTournaments =>
          \A id \in {tournaments[i].ID : i \in DOMAIN tournaments} :
              Count(tournamentsOut.errs, "id '" \o Join(id) \o "': " \o ErrIsDuplicate)
                  = Cardinality({i \in DOMAIN tournaments :
                                    tournaments[i].ID = id /\ Earlier(tournaments, i) # {}})

\* validateMatches ran on two matches whose ids differ in the file and are
\* the same once trimmed
C6_Witness ==
    /\ RanValidateMatches
    /\ Len(matches) = 2
    /\ matches[1].ID = matches[2].ID
    /\ records.rows[1].MATCH_ID # records.rows[2].MATCH_ID
    /\ Len(matchesOut.errs) = 1

\* C7: if validateSweepstakes succeeds, the ids of the sweepstakes it
\* returns, as stored after validation, are pairwise distinct.
C7_DistinctIds ==
    RanValidateSweepstakes /\ sweepstakesOut.errNil =>
        \A i, j \in DOMAIN sweepstakesOut.coll :
            i # j => sweepstakesOut.coll[i].ID # sweepstakesOut.coll[j].ID

\* the teams that have an empty required field or the id of an earlier team
InvalidTeams(tc) ==
    {i \in DOMAIN tc :
        \/ validateTeam(tc[i]).err # NilError
        \/ \E j \in 1..(i - 1) : Trim(tc[j].ID) = Trim(tc[i].ID)}

\* the number of failures an error reports
Reported(out) == IF out.errNil THEN 0 ELSE IF out.aggregate THEN Len(out.errs) ELSE 1

\* C8: validateTeams does not stop at the first failure: it reports every
\* team that has an empty required field or a duplicate id.
C8_ReportsEveryTeam ==
    pc = "done" /\ teamsOut # NoOut => Reported(teamsOut) >= Cardinality(InvalidTeams(teams))

\* the errors of a list of lists, one after the other
RECURSIVE Flatten(_)
Flatten(lists) == IF lists = <<>> THEN <<>> ELSE Head(lists) \o Flatten(Tail(lists))

\* the errors of row n, each field parsed on its own with a fresh aggregator,
\* in the order in which transformCSVRowToMatch parses the fields
RowErrors(row, n) ==
    LET at(field) == <<"row " \o Itoa(n), field>>
    IN  Flatten(<<parseTimestamp(row.DATE, row.TIME, NewMultiError,
                                 <<"row " \o Itoa(n)>>).errs,
                  convertToMatchStage(row.STAGE, NewMultiError, <<"row " \o Itoa(n)>>).errs,
                  parseUInt8(row.HOME_GOALS, NewMultiError, at("home goals")).errs,
                  parseUInt8(row.HOME_YELLOW_CARDS, NewMultiError,
                             at("home yellow cards")).errs,
                  parseMatchEvents(row.HOME_OG, NewMultiError, at("home own goals")).errs,
                  parseMatchEvents(row.HOME_RED_CARDS, NewMultiError,
                                   at("home red cards")).errs,
                  parseUInt8(row.AWAY_GOALS, NewMultiError, at("away goals")).errs,
                  parseUInt8(row.AWAY_YELLOW_CARDS, NewMultiError,
                             at("away yellow cards")).errs,
                  parseMatchEvents(row.AWAY_OG, NewMultiError, at("away own goals")).errs,
                  parseMatchEvents(row.AWAY_RED_CARDS, NewMultiError,
                                   at("away red cards")).errs>>)

\* the errors of all rows, in ascending row number
AllRowErrors(rows) == Flatten([n \in DOMAIN rows |-> RowErrors(rows[n], n)])

HeaderAccepted(recs) == RecordsLen(recs) >= 2 /\ recs.header = matchesCSVHeader

\* C9: once the header is accepted, transformCSVToMatches parses every data
\* row, also after a row with errors, and its aggregate lists the errors of
\* all rows in ascending row number ('row n', n from 1), the errors of a row in
\* the order in which its fields are parsed.
C9_AllRowsInOrder ==
    pc = "done" /\ matchesOut # NoOut /\ HeaderAccepted(records) =>
        IF AllRowErrors(records.rows) = <<>>
        THEN RanValidateMatches
        ELSE /\ matchesOut.aggregate /\ matchesOut.msg # ""
             /\ matchesOut.errs = AllRowErrors(records.rows)
             /\ Len(matchesOut.built) = Len(records.rows)

\* a file of two rows, each with errors in several fields, was transformed
C9_Witness ==
    /\ pc = "done" /\ matchesOut # NoOut /\ HeaderAccepted(records)
    /\ Len(records.rows) = 2
    /\ Len(RowErrors(records.rows[1], 1)) >= 2
    /\ Len(RowErrors(records.rows[2], 2)) >= 2
    /\ matchesOut.aggregate

\* C10: if validateMatches succeeds, every match with both a home and an away
\* team has different home and away team ids, and every match with a winner
\* has the winner id of its home team or of its away team.
C10_TeamsConsistent ==
    RanValidateMatches /\ matchesOut.errNil =>
        \A i \in DOMAIN matchesOut.coll :
            LET m == matchesOut.coll[i]
            IN  /\ ~m.Home.Team.nil /\ ~m.Away.Team.nil => m.Home.Team.ID # m.Away.Team.ID
                /\ ~m.Winner.nil =>
                      \/ ~m.Home.Team.nil /\ m.Winner.ID = m.Home.Team.ID
                      \/ ~m.Away.Team.nil /\ m.Winner.ID = m.Away.Team.ID

\* validateMatches succeeded on two matches that each have a home team, an
\* away team and a winner
C10_Witness ==
    /\ RanValidateMatches /\ matchesOut.errNil
    /\ Len(matchesOut.coll) = 2
    /\ \A i \in DOMAIN matchesOut.coll :
          /\ ~matchesOut.coll[i].Home.Team.nil
          /\ ~matchesOut.coll[i].Away.Team.nil
          /\ ~matchesOut.coll[i].Winner.nil

\* the own goals of the away team of row n, as parseMatchEvents returned
\* them, and the errors it added on its own
AwayOwnGoals(n) == matches[n].Away.OwnGoals
AwayOwnGoalErrors(n) ==
    parseMatchEvents(records.rows[n].AWAY_OG, NewMultiError, <<>>).errs

Transformed == pc = "done" /\ matchesOut # NoOut /\ HeaderAccepted(records)

\* C11: if parsing an own-goal or red-card field adds any error,
\* parseMatchEvents returns no events at all for that field.
C11_NoEventsOnError ==
    Transformed =>
        \A n \in DOMAIN records.rows :
            AwayOwnGoalErrors(n) # <<>> => AwayOwnGoals(n) = <<>>

\* the entries written in a field
EntriesOf(field) == Tail(Split(Trim(field), ";"))

\* C12: every MatchEvent that parseMatchEvent produces has a stored minute of
\* at least 1, and a stored offset of at least 1 whenever the entry wrote an
\* offset, whatever integers the entry writes.
C12_MinuteAtLeastOne ==
    Transformed =>
        \A n \in DOMAIN records.rows :
            /\ \A k \in DOMAIN AwayOwnGoals(n) : AwayOwnGoals(n)[k].Minute >= 1
            /\ AwayOwnGoalErrors(n) = <<>> =>
                  \A k \in DOMAIN AwayOwnGoals(n) :
                      LET written == SplitN2(Split(EntriesOf(records.rows[n].AWAY_OG)[k],
                                                   ":")[2], "+")
                      IN  Len(written) = 2 /\ written[2] # <<>>
                              => AwayOwnGoals(n)[k].Offset >= 1

\* the home, away and winner references of match n, as LoadMatches returned
\* them and as validateTournament left them
SlotNames == <<"home", "away", "winner">>
RefsBefore(n) == <<matches[n].Home.Team, matches[n].Away.Team, matches[n].Winner>>
RefsAfter(n) ==
    <<tournament.Matches[n].Home.Team, tournament.Matches[n].Away.Team,
      tournament.Matches[n].Winner>>

\* reference k of match n has an id that is not in the team list
Unlisted(n, k) ==
    ~RefsBefore(n)[k].nil /\ RefsBefore(n)[k].ID \notin TeamIds(tournament.Teams)

NotFoundError(n, k) ==
    "match " \o Itoa(n) \o ": " \o SlotNames[k] \o ": team id '"
        \o Join(RefsBefore(n)[k].ID) \o "': not found"

\* where the error is listed
Position(errs, err) == CHOOSE i \in DOMAIN errs : errs[i] = err

\* C20: for each home, away or winner reference whose id is not in the
\* tournament's team list, validateTournament adds exactly one error
\* "match <n>: <slot>: team id '<id>': not found", n counted from 1 and the
\* slots of a match in the order home, away, winner, and leaves the reference
\* unchanged.
C20_NotFoundPerReference ==
    RanValidateTournament =>
        /\ \A n \in DOMAIN matches : \A k \in 1..3 :
              Unlisted(n, k) =>
                  /\ Count(tournamentOut.errs, NotFoundError(n, k)) = 1
                  /\ RefsAfter(n)[k] = RefsBefore(n)[k]
        /\ \A n1, n2 \in DOMAIN matches : \A k1, k2 \in 1..3 :
              /\ Unlisted(n1, k1) /\ Unlisted(n2, k2)
              /\ n1 < n2 \/ (n1 = n2 /\ k1 < k2)
              /\ Count(tournamentOut.errs, NotFoundError(n1, k1)) = 1
              /\ Count(tournamentOut.errs, NotFoundError(n2, k2)) = 1
              => Position(tournamentOut.errs, NotFoundError(n1, k1))
                    < Position(tournamentOut.errs, NotFoundError(n2, k2))

\* the same for the references that have an id
C20_NotFoundPerNamedReference ==
    RanValidateTournament =>
        /\ \A n \in DOMAIN matches : \A k \in 1..3 :
              Unlisted(n, k) /\ RefsBefore(n)[k].ID # <<>> =>
                  /\ Count(tournamentOut.errs, NotFoundError(n, k)) = 1
                  /\ RefsAfter(n)[k] = RefsBefore(n)[k]
        /\ \A n1, n2 \in DOMAIN matches : \A k1, k2 \in 1..3 :
              /\ Unlisted(n1, k1) /\ RefsBefore(n1)[k1].ID # <<>>
              /\ Unlisted(n2, k2) /\ RefsBefore(n2)[k2].ID # <<>>
              /\ n1 < n2 \/ (n1 = n2 /\ k1 < k2)
              => Position(tournamentOut.errs, NotFoundError(n1, k1))
                    < Position(tournamentOut.errs, NotFoundError(n2, k2))

RanPrizes == pc = "done" /\ prizes # <<>>

\* the Final of a sweepstake that is not nil, <<>> when there is none
Final(s) == MatchCollection_GetByID(s.Tournament.Matches, finalMatchID)

\* the Final is completed and has a winner
FinalDecided(s) ==
    /\ ~s.nil /\ Final(s) # <<>>
    /\ Final(s)[1].Completed /\ ~Final(s)[1].Winner.nil

\* the participants of the sweepstake that hold the team and have a name
NamedHolders(s, team) ==
    {i \in DOMAIN s.Participants :
        s.Participants[i].TeamID = team.ID /\ s.Participants[i].Name # <<>>}

\* what a prize shows for a team: '<participant name> (<team name>)' for the
\* first participant that holds the team when that one has a name, the team
\* name otherwise
Shown(s, team) ==
    LET holders == {i \in DOMAIN s.Participants : s.Participants[i].TeamID = team.ID}
        first == CHOOSE i \in holders : \A j \in holders : i <= j
    IN  IF holders # {} /\ first \in NamedHolders(s, team)
        THEN s.Participants[first].Name \o <<" ", "(">> \o team.Name \o <<")">>
        ELSE team.Name

\* C13: TournamentWinner returns the default 'TBC' prize exactly when the
\* sweepstake is nil, or no match has id 'F', or that match is not completed,
\* or it has no winner; in every other case it names the Final's winning
\* team, as '<participant name> (<team name>)' when a participant with a
\* non-empty name holds that team and as '<team name>' otherwise, with that
\* team's image URL.
C13_TournamentWinner ==
    RanPrizes =>
        \A i \in DOMAIN prizes :
            LET s == prizeSweepstakes[i]
                prize == prizes[i].Winner
            IN  /\ prize.PrizeName = tournamentWinner
                /\ prize = DefaultOutrightPrize(tournamentWinner) <=> ~FinalDecided(s)
                /\ FinalDecided(s) =>
                      /\ prize.ParticipantName = Shown(s, Final(s)[1].Winner)
                      /\ prize.ImageURL = Final(s)[1].Winner.ImageURL

\* the winner prize named the away team of a completed Final that is not the
\* first match, with its participant's name
C13_Witness ==
    /\ RanPrizes
    /\ FinalDecided(prizeSweepstakes[1])
    /\ prizeSweepstakes[1].Tournament.Matches[1].ID # finalMatchID
    /\ prizes[1].Winner.ParticipantName = <<"q", " ", "(", "n", "B", ")">>
    /\ prizes[1].Winner.ImageURL = <<"u", "B">>

\* of the home and the away team of a decided Final, the one that is not the
\* winner
Loser(match) ==
    IF ~match.Home.Team.nil /\ match.Home.Team.ID = match.Winner.ID
    THEN match.Away.Team ELSE match.Home.Team

\* C14: when the Final is completed and has a winner, TournamentRunnerUp
\* names the one of the Final's home and away teams that is not the winner
\* (nobody when the Final has no other team), so the winner prize and the
\* runner-up prize never name the same team.
C14_RunnerUpIsTheOther ==
    RanPrizes =>
        \A i \in DOMAIN prizes :
            LET s == prizeSweepstakes[i]
                prize == prizes[i].RunnerUp
            IN  FinalDecided(s) =>
                    /\ prize.PrizeName = tournamentRunnerUp
                    /\ Loser(Final(s)[1]).nil =>
                          prize = DefaultOutrightPrize(tournamentRunnerUp)
                    /\ ~Loser(Final(s)[1]).nil =>
                          /\ prize.ParticipantName = Shown(s, Loser(Final(s)[1]))
                          /\ prize.ImageURL = Loser(Final(s)[1]).ImageURL
                    /\ prize.ImageURL # prizes[i].Winner.ImageURL
                    /\ prize.ParticipantName # prizes[i].Winner.ParticipantName

\* the away team won the Final and the runner-up prize named the home team
\* with its participant
C14_Witness ==
    /\ RanPrizes
    /\ FinalDecided(prizeSweepstakes[1])
    /\ Final(prizeSweepstakes[1])[1].Winner = ValidTeam("B")
    /\ prizes[1].RunnerUp.ParticipantName = <<"p", " ", "(", "n", "A", ")">>
    /\ prizes[1].RunnerUp.ImageURL = <<"u", "A">>
    /\ prizes[1].Winner.ImageURL = <<"u", "B">>

\* the team is the home team, the away team of the match
IsHome(match, id) == ~match.Home.Team.nil /\ match.Home.Team.ID = id
IsAway(match, id) == ~match.Away.Team.nil /\ match.Away.Team.ID = id

\* the goals of its opponents in the completed matches of the team
RECURSIVE Conceded(_, _)
Conceded(ms, id) ==
    IF ms = <<>> THEN 0
    ELSE (IF Head(ms).Completed /\ IsHome(Head(ms), id) THEN Head(ms).Away.Goals ELSE 0)
         + (IF Head(ms).Completed /\ IsAway(Head(ms), id) THEN Head(ms).Home.Goals ELSE 0)
         + Conceded(Tail(ms), id)

\* the yellow cards of the team in its completed matches
RECURSIVE YellowCards(_, _)
YellowCards(ms, id) ==
    IF ms = <<>> THEN 0
    ELSE (IF Head(ms).Completed /\ IsHome(Head(ms), id) THEN Head(ms).Home.YellowCards ELSE 0)
         + (IF Head(ms).Completed /\ IsAway(Head(ms), id) THEN Head(ms).Away.YellowCards ELSE 0)
         + YellowCards(Tail(ms), id)

\* the completed matches of the team
MatchesOf(ms, id) ==
    {n \in DOMAIN ms : ms[n].Completed /\ (IsHome(ms[n], id) \/ IsAway(ms[n], id))}

\* the place in the team list of the team a ranking shows
RankedTeam(s, rank) ==
    CHOOSE t \in DOMAIN s.Tournament.Teams : s.Tournament.Teams[t].ImageURL = rank.ImageURL

\* C15: in the result of MostGoalsConceded, the value shown for each ranked
\* team equals the sum, over all completed matches in which that team is
\* home or away, of the goals scored by its opponent in that match.
C15_GoalsConceded ==
    RanPrizes =>
        \A i \in DOMAIN prizes :
            LET s == prizeSweepstakes[i]
                rankings == prizes[i].MostGoalsConceded.Rankings
            IN  /\ s.nil => rankings = <<>>
                /\ ~s.nil =>
                      \A k \in DOMAIN rankings :
                          /\ \E t \in DOMAIN s.Tournament.Teams :
                                s.Tournament.Teams[t].ImageURL = rankings[k].ImageURL
                          /\ rankings[k].Value =
                                TotalValue(Conceded(s.Tournament.Matches,
                                    s.Tournament.Teams[RankedTeam(s, rankings[k])].ID))

\* a team that conceded at home and away in two completed matches is ranked
\* with the sum of both
C15_Witness ==
    /\ RanPrizes /\ ~prizeSweepstakes[1].nil
    /\ Cardinality(MatchesOf(prizeSweepstakes[1].Tournament.Matches, <<"A">>)) = 2
    /\ IsHome(prizeSweepstakes[1].Tournament.Matches[1], <<"A">>)
    /\ IsAway(prizeSweepstakes[1].Tournament.Matches[2], <<"A">>)
    /\ \E k \in DOMAIN prizes[1].MostGoalsConceded.Rankings :
          /\ prizes[1].MostGoalsConceded.Rankings[k].ImageURL = <<"u", "A">>
          /\ prizes[1].MostGoalsConceded.Rankings[k].Value = <<"*", " ", "3">>

\* the rankings of the two prizes built from team totals, each with the total
\* of every team of the team list
RankedTotals(i) ==
    LET s == prizeSweepstakes[i]
    IN  {[rankings |-> prizes[i].MostGoalsConceded.Rankings,
          total |-> [t \in DOMAIN s.Tournament.Teams |->
                        Conceded(s.Tournament.Matches, s.Tournament.Teams[t].ID)]],
         [rankings |-> prizes[i].MostYellowCards.Rankings,
          total |-> [t \in DOMAIN s.Tournament.Teams |->
                        YellowCards(s.Tournament.Matches, s.Tournament.Teams[t].ID)]]}

\* C16: a ranked prize built from team totals lists exactly the tournament
\* teams whose total is not 0, ordered by total descending, with teams of
\* equal total kept in the order of the tournament's team list.
C16_RankedByTotal ==
    RanPrizes =>
        \A i \in DOMAIN prizes : ~prizeSweepstakes[i].nil =>
            \A p \in RankedTotals(i) :
                LET s == prizeSweepstakes[i]
                    place == [k \in DOMAIN p.rankings |-> RankedTeam(s, p.rankings[k])]
                IN  /\ \A k \in DOMAIN p.rankings :
                          s.Tournament.Teams[place[k]].ImageURL = p.rankings[k].ImageURL
                    /\ {place[k] : k \in DOMAIN p.rankings}
                          = {t \in DOMAIN s.Tournament.Teams : p.total[t] # 0}
                    /\ \A k, l \in DOMAIN p.rankings :
                          k < l =>
                              \/ p.total[place[k]] > p.total[place[l]]
                              \/ p.total[place[k]] = p.total[place[l]] /\ place[k] < place[l]

\* the places in the team list of the teams a prize ranked, in ranking order
Places(s, rankings) == [k \in DOMAIN rankings |-> RankedTeam(s, rankings[k])]

\* a prize ranked a team before one that stands earlier in the team list, a
\* prize ranked two teams of equal total, and a prize left out a team of
\* total 0 while it ranked two others
C16_Witness ==
    /\ RanPrizes /\ ~prizeSweepstakes[1].nil
    /\ \E p \in RankedTotals(1) : \E k, l \in DOMAIN p.rankings :
          /\ k < l
          /\ Places(prizeSweepstakes[1], p.rankings)[k]
                > Places(prizeSweepstakes[1], p.rankings)[l]
    /\ \E p \in RankedTotals(1) : \E k, l \in DOMAIN p.rankings :
          /\ k < l
          /\ p.total[Places(prizeSweepstakes[1], p.rankings)[k]]
                = p.total[Places(prizeSweepstakes[1], p.rankings)[l]]
    /\ \E p \in RankedTotals(1) :
          Len(p.rankings) = 2 /\ \E t \in DOMAIN p.total : p.total[t] = 0

\* C17: the positions of the rankings returned for a team-total prize are
\* exactly 1, 2, ..., k in list order, where k is the number of teams with a
\* non-zero total: no position is skipped or repeated even though teams with
\* total 0 are left out and tied teams are not collapsed.
C17_Positions ==
    RanPrizes =>
        \A i \in DOMAIN prizes : ~prizeSweepstakes[i].nil =>
            \A p \in RankedTotals(i) :
                /\ Len(p.rankings) = Cardinality({t \in DOMAIN p.total : p.total[t] # 0})
                /\ \A k \in DOMAIN p.rankings : p.rankings[k].Position = k

\* two teams of equal total got the positions 1 and 2 and a team of total 0
\* that stands first in the team list was left out
C17_Witness ==
    /\ RanPrizes /\ ~prizeSweepstakes[1].nil
    /\ \E p \in RankedTotals(1) :
          /\ p.total[1] = 0 /\ p.total[2] = p.total[3] /\ p.total[2] # 0
          /\ Len(p.rankings) = 2
          /\ p.rankings[1].Position = 1 /\ p.rankings[1].ImageURL = <<"u", "B">>
          /\ p.rankings[2].Position = 2 /\ p.rankings[2].ImageURL = <<"u", "C">>

\* the own-goal events of the completed matches in extraction order: match
\* by match, the home events before the away events
RECURSIVE Extracted(_)
Extracted(ms) ==
    IF ms = <<>> THEN <<>>
    ELSE (IF Head(ms).Completed
          THEN [k \in DOMAIN Head(ms).Home.OwnGoals |->
                   [event |-> Head(ms).Home.OwnGoals[k], for |-> Head(ms).Home.Team,
                    against |-> Head(ms).Away.Team, timestamp |-> Head(ms).Timestamp]]
               \o [k \in DOMAIN Head(ms).Away.OwnGoals |->
                   [event |-> Head(ms).Away.OwnGoals[k], for |-> Head(ms).Away.Team,
                    against |-> Head(ms).Home.Team, timestamp |-> Head(ms).Timestamp]]
          ELSE <<>>)
         \o Extracted(Tail(ms))

\* event a is before event b by minute and, for equal minutes, by offset
Quicker(a, b) == a.Minute < b.Minute \/ (a.Minute = b.Minute /\ a.Offset < b.Offset)

\* the place of extracted event j in the ranking: after every quicker event
\* and after every event that is as quick and was extracted earlier
PlaceOf(evs, j) ==
    1 + Cardinality({m \in DOMAIN evs :
                        \/ Quicker(evs[m].event, evs[j].event)
                        \/ /\ ~Quicker(evs[j].event, evs[m].event) /\ m < j})

\* the ranking is the one of the event: its team, its minute, offset and player
RanksEvent(rank, ev) ==
    /\ ~ev.for.nil /\ ~ev.against.nil
    /\ rank.ImageURL = ev.for.ImageURL
    /\ rank.Value = <<"*", " ">> \o MatchEvent_String(ev.event) \o <<" ", "(", "v", "s", " ">>
                        \o ev.against.Name \o <<" ", "d">> \o ItoaChars(ev.timestamp)
                        \o <<"/", "m", "m", ")">>

OneRankingPerOwnGoal(s, prize) ==
    LET evs == Extracted(s.Tournament.Matches)
    IN  /\ prize # Panic
        /\ Len(prize.Rankings) = Len(evs)
        /\ \A j \in DOMAIN evs : RanksEvent(prize.Rankings[PlaceOf(evs, j)], evs[j])

\* C18: QuickestOwnGoal returns exactly one ranking for each own-goal event
\* of each completed match, ordered by minute ascending and, for equal
\* minutes, by offset ascending (an event without offset counting as offset
\* 0); events equal in both keep their extraction order (match order, home
\* events before away events).
C18_OneRankingPerOwnGoal ==
    RanPrizes =>
        \A i \in DOMAIN prizes : ~prizeSweepstakes[i].nil =>
            OneRankingPerOwnGoal(prizeSweepstakes[i], prizes[i].QuickestOwnGoal)

\* every own goal of a completed match has its team and its opponent
TeamsKnown(s) ==
    \A j \in DOMAIN Extracted(s.Tournament.Matches) :
        /\ ~Extracted(s.Tournament.Matches)[j].for.nil
        /\ ~Extracted(s.Tournament.Matches)[j].against.nil

\* the same for the sweepstakes whose completed matches with own goals have
\* both teams, and a panic for the others
C18_OneRankingPerOwnGoalOrPanic ==
    RanPrizes =>
        \A i \in DOMAIN prizes : ~prizeSweepstakes[i].nil =>
            IF TeamsKnown(prizeSweepstakes[i])
            THEN OneRankingPerOwnGoal(prizeSweepstakes[i], prizes[i].QuickestOwnGoal)
            ELSE prizes[i].QuickestOwnGoal = Panic

\* the match ids of the tournament are unique
UniqueMatchIds(s) ==
    \A m, n \in DOMAIN s.Tournament.Matches :
        s.Tournament.Matches[m].ID = s.Tournament.Matches[n].ID => m = n

\* the two sweepstakes are equal except for the data of the matches that are
\* not completed
EqualButUncompleted(s1, s2) ==
    /\ ~s1.nil /\ ~s2.nil
    /\ [s1 EXCEPT !.Tournament.Matches = <<>>] = [s2 EXCEPT !.Tournament.Matches = <<>>]
    /\ Len(s1.Tournament.Matches) = Len(s2.Tournament.Matches)
    /\ \A n \in DOMAIN s1.Tournament.Matches :
          /\ s1.Tournament.Matches[n].ID = s2.Tournament.Matches[n].ID
          /\ s1.Tournament.Matches[n].Completed = s2.Tournament.Matches[n].Completed
          /\ s1.Tournament.Matches[n].Completed
                => s1.Tournament.Matches[n] = s2.Tournament.Matches[n]

\* C19: matches that are not completed have no influence on any prize: for a
\* tournament with unique match ids, two sweepstakes that are equal except
\* for the data (teams, winner, goals, cards, events, timestamp) of matches
\* whose Completed flag is false get identical results from TournamentWinner,
\* MostGoalsConceded, MostYellowCards and QuickestOwnGoal.
C19_UncompletedIgnored ==
    RanPrizes =>
        \A i, j \in DOMAIN prizes :
            /\ EqualButUncompleted(prizeSweepstakes[i], prizeSweepstakes[j])
            /\ UniqueMatchIds(prizeSweepstakes[i])
            => /\ prizes[i].Winner = prizes[j].Winner
               /\ prizes[i].MostGoalsConceded = prizes[j].MostGoalsConceded
               /\ prizes[i].MostYellowCards = prizes[j].MostYellowCards
               /\ prizes[i].QuickestOwnGoal = prizes[j].QuickestOwnGoal

\* two sweepstakes with a completed match and a Final that is not completed
\* and differs in its teams, winner, goals, cards, own goals and timestamp
\* got the same prizes, with rankings in them
C19_Witness ==
    /\ RanPrizes /\ Len(prizes) = 2
    /\ EqualButUncompleted(prizeSweepstakes[1], prizeSweepstakes[2])
    /\ UniqueMatchIds(prizeSweepstakes[1])
    /\ \E n \in DOMAIN prizeSweepstakes[1].Tournament.Matches :
          LET m1 == prizeSweepstakes[1].Tournament.Matches[n]
              m2 == prizeSweepstakes[2].Tournament.Matches[n]
          IN  /\ m1.ID = finalMatchID /\ ~m1.Completed
              /\ m1.Home # m2.Home /\ m1.Away # m2.Away /\ m1.Winner # m2.Winner
              /\ m1.Timestamp # m2.Timestamp
    /\ \E n \in DOMAIN prizeSweepstakes[1].Tournament.Matches :
          prizeSweepstakes[1].Tournament.Matches[n].Completed
    /\ prizes[1] = prizes[2]
    /\ prizes[1].MostGoalsConceded.Rankings # <<>>
    /\ prizes[1].QuickestOwnGoal # Panic
    /\ prizes[1].QuickestOwnGoal.Rankings # <<>>

\* a first application of populateTeamByID enriched the reference
Enriched ==
    pc = "enriched" /\ refErr = NilError /\ ~ref.nil /\ ref.ID # <<>>

\* C21: enrichment is idempotent: applying populateTeamByID a second time,
\* against the same team list, to a team reference that a first application
\* already enriched changes none of its fields and returns no error.
C21_EnrichmentIdempotent ==
    [][Enriched => ref' = ref /\ refErr' = NilError /\ teams' = teams]_vars

\* a reference that held an id alone was enriched to the team of the list
\* and a second application has run
C21_Witness ==
    /\ pc = "done" /\ refErr = NilError
    /\ ref = ValidTeam("B") /\ teams = <<ValidTeam("A"), ValidTeam("B")>>


\* the Add calls that handed over an error that is not nil
NonNilAdds == {i \in DOMAIN added : added[i].err # NilError}

\* the step is an Add call that handed over nil
AddsNil == added' # added /\ added'[Len(added')].err = NilError

\* C22: after any sequence of Add calls, on the aggregator or through its
\* prefixed views, IsEmpty() is true exactly when no non-nil error has been
\* added, and an Add of nil never changes the aggregator.
C22_EmptyIffNothingAdded ==
    /\ [](multiErr_IsEmpty(mErr) <=> NonNilAdds = {})
    /\ [][AddsNil => mErr' = mErr]_vars

\* nil was added after an error, directly and through views, and one error
\* is held
C22_Witness ==
    /\ Len(added) = 3 /\ Len(mErr) = 1 /\ ~multiErr_IsEmpty(mErr)
    /\ added[1].err # NilError /\ added[2].err = NilError /\ added[3].err = NilError
    /\ added[2].prefixes # <<>> /\ added[3].prefixes = <<>>

\* the message the claim gives an error added through views with these
\* prefixes, the outermost first
RECURSIVE Prefixed(_, _)
Prefixed(prefixes, msg) ==
    IF prefixes = <<>> THEN msg
    ELSE Head(prefixes) \o ": " \o Prefixed(Tail(prefixes), msg)

\* the prefixes that are not empty, in their order
RECURSIVE NonEmpty(_)
NonEmpty(prefixes) ==
    IF prefixes = <<>> THEN <<>>
    ELSE IF Head(prefixes) = "" THEN NonEmpty(Tail(prefixes))
    ELSE <<Head(prefixes)>> \o NonEmpty(Tail(prefixes))

\* the messages of the non-nil Add calls from call i on, in call order
RECURSIVE MessagesFrom(_, _)
MessagesFrom(i, keepEmpty) ==
    IF i > Len(added) THEN <<>>
    ELSE IF added[i].err = NilError THEN MessagesFrom(i + 1, keepEmpty)
    ELSE <<Prefixed(IF keepEmpty THEN added[i].prefixes ELSE NonEmpty(added[i].prefixes),
                    added[i].err)>> \o MessagesFrom(i + 1, keepEmpty)

\* C23: an error added through a view obtained with WithPrefix(p) is appended
\* to the one list shared with the aggregator, in the order of the Add calls
\* across all views, with the message "<p>: <message>", and through a view
\* of a view with the outer prefix first, "<p1>: <p2>: <message>".
C23_PrefixedInCallOrder == mErr = MessagesFrom(1, TRUE)

\* C23, amended: the same for every prefix that is not empty; a view whose
\* prefix is the empty string hands the error on as it is.
C23_NonEmptyPrefixedInCallOrder == mErr = MessagesFrom(1, FALSE)

\* errors were added through a view of a view, through the aggregator and
\* through a view with an empty prefix, and are held in that order
C23_Witness ==
    /\ Len(added) = 3
    /\ added[1] = [prefixes |-> <<"p", "p">>, err |-> "f"]
    /\ added[2] = [prefixes |-> <<>>, err |-> "e"]
    /\ added[3] = [prefixes |-> <<"", "p">>, err |-> "e"]
    /\ mErr = <<"p: p: f", "e", "p: e">>


\* the counters of the audit as its methods find them: every method that
\* reads the map runs init first
Counters == teamsAudit_init(teams, audit)

\* the ack calls made with a team of this id
AcksOf(id) == {i \in DOMAIN acks : ~acks[i].team.nil /\ acks[i].team.ID = id}

\* C24: after any sequence of ack calls the ids that have a counter are
\* exactly the ids of the baseline teams and each counter equals the number of
\* ack calls made with a team of that id; an ack with a nil team or with an id
\* outside the baseline returns false and changes or creates no counter.
C24_AckCountsBaselineOnly ==
    /\ DOMAIN audit \subseteq TeamIds(teams)
    /\ DOMAIN Counters = TeamIds(teams)
    /\ \A id \in TeamIds(teams) : Counters[id] = Cardinality(AcksOf(id))
    /\ \A i \in DOMAIN acks :
          acks[i].ok <=> (~acks[i].team.nil /\ acks[i].team.ID \in TeamIds(teams))

\* a team of the list was acknowledged twice, a nil team and a team outside
\* the list once each
C24_Witness ==
    /\ pc = "exactly once" /\ teams = <<ValidTeam("A"), ValidTeam("B")>>
    /\ \E i, j, k \in DOMAIN acks :
          /\ i # j /\ acks[i].team.ID = <<"A">> /\ acks[j].team.ID = <<"A">>
          /\ acks[k].team.ID = <<"C">> /\ ~acks[k].ok
    /\ audit = (<<"A">> :> 2) @@ (<<"B">> :> 0)


\* validate has run, in one mode or the other
Validated == pc \in {"exactly once", "at least once"}

\* the ids whose counter validate reports in the mode it ran in
CountersReported ==
    {id \in DOMAIN audit : IF pc = "exactly once" THEN audit[id] # 1 ELSE audit[id] = 0}

\* the one ascending arrangement of a set of texts
Ascending(S) ==
    CHOOSE s \in Orders(S) : \A i, j \in DOMAIN s : i < j => StrLess(s[i], s[j])

\* C25: for given counter values teamsAudit.validate adds the same errors in
\* the same order, ascending by message text, whatever the order in which the
\* map iteration visits the ids.
C25_ValidateOrderIndependent ==
    Validated =>
        mErr = JoinAll(Ascending({TeamCountChars(id, audit[id]) : id \in CountersReported}))

\* the list holds B before A, B was acknowledged twice and A never, and the
\* error of A stands before the error of B
C25_Witness ==
    /\ pc = "exactly once" /\ teams = <<ValidTeam("B"), ValidTeam("A")>>
    /\ mErr = <<"team id 'A': count 0", "team id 'B': count 2">>


\* a text is a positive integer in decimal digits
PositiveInteger(text) ==
    /\ text # <<>>
    /\ \A i \in DOMAIN text : IsDigit(text[i])
    /\ \E i \in DOMAIN text : text[i] # "0"

\* the entries of the away own goals field of row n, when the field announces
\* as many entries as it holds and parseMatchEvent is called on each
EntriesParsed(n) ==
    LET field == Split(Trim(records.rows[n].AWAY_OG), ";")
    IN  IF Len(field) > 1 /\ PositiveInteger(field[1])
           /\ Atoi(field[1]).val = Len(field) - 1
        THEN Tail(field) ELSE <<>>

\* the entry is "<name>:<minute>+<text>" with a positive integer minute
WritesOffset(entry) ==
    /\ Len(Split(entry, ":")) = 2
    /\ Len(SplitN2(Split(entry, ":")[2], "+")) = 2
    /\ PositiveInteger(SplitN2(Split(entry, ":")[2], "+")[1])

\* the text an entry writes after '+'
OffsetText(entry) == SplitN2(Split(entry, ":")[2], "+")[2]

\* the offset errors of entry k with this text after '+'
OffsetErrors(k, text) ==
    {"event " \o Itoa(k) \o ": offset: must be greater than 0",
     "event " \o Itoa(k) \o ": offset: invalid int: " \o Atoi(text).err}

\* the entries parsed in row n that write '+' and no positive integer after it
BadOffsets(n) ==
    {k \in DOMAIN EntriesParsed(n) :
        /\ WritesOffset(EntriesParsed(n)[k])
        /\ ~PositiveInteger(OffsetText(EntriesParsed(n)[k]))}

\* C26: an event entry with '+' after the minute is accepted only when the
\* text after '+' is a positive integer; otherwise parseMatchEvent adds an
\* offset error and produces no event.
C26_OffsetPositiveOrError ==
    Transformed =>
        \A n \in DOMAIN records.rows :
            /\ \A k \in BadOffsets(n) :
                  OffsetErrors(k, OffsetText(EntriesParsed(n)[k]))
                      \cap Listed(AwayOwnGoalErrors(n)) # {}
            /\ Len(AwayOwnGoals(n)) <= Len(EntriesParsed(n)) - Cardinality(BadOffsets(n))

\* the same for every entry that writes some text after '+'
C26_WrittenOffsetPositiveOrError ==
    Transformed =>
        \A n \in DOMAIN records.rows :
            LET written == {k \in BadOffsets(n) : OffsetText(EntriesParsed(n)[k]) # <<>>}
            IN  /\ \A k \in written :
                      OffsetErrors(k, OffsetText(EntriesParsed(n)[k]))
                          \cap Listed(AwayOwnGoalErrors(n)) # {}
                /\ Len(AwayOwnGoals(n)) <= Len(EntriesParsed(n)) - Cardinality(written)


\* a text is a decimal integer: digits, with or without a sign
DecimalInteger(text) ==
    /\ text # <<>>
    /\ LET digits == IF Head(text) \in {"+", "-"} THEN Tail(text) ELSE text
       IN  digits # <<>> /\ \A i \in DOMAIN digits : IsDigit(digits[i])

\* the count fields of row n: the text written, the number stored and the
\* prefix of the errors of the field
CountFields(n) ==
    {[text |-> records.rows[n].HOME_GOALS, stored |-> matches[n].Home.Goals,
      prefix |-> "home goals"],
     [text |-> records.rows[n].AWAY_GOALS, stored |-> matches[n].Away.Goals,
      prefix |-> "away goals"],
     [text |-> records.rows[n].HOME_YELLOW_CARDS, stored |-> matches[n].Home.YellowCards,
      prefix |-> "home yellow cards"],
     [text |-> records.rows[n].AWAY_YELLOW_CARDS, stored |-> matches[n].Away.YellowCards,
      prefix |-> "away yellow cards"]}

\* parseUInt8 added an error for the field
CountErrorAdded(n, f) ==
    \E e \in Listed(matchesOut.errs) :
        \E rest \in {"invalid int: " \o Atoi(f.text).err, "out of range"} :
            e = "row " \o Itoa(n) \o ": " \o f.prefix \o ": " \o rest

\* C27: for a goals or yellow-card field holding a decimal integer, parseUInt8
\* either returns exactly that integer or adds an error; it never silently
\* stores a different number.  An empty field gives 0 without an error.
C27_ExactlyStoredOrError ==
    Transformed =>
        \A n \in DOMAIN records.rows : \A f \in CountFields(n) :
            /\ DecimalInteger(f.text) =>
                  f.stored = Atoi(f.text).val \/ CountErrorAdded(n, f)
            /\ f.text = <<>> => f.stored = 0 /\ ~CountErrorAdded(n, f)

\* the same for the integers from 0 to 255, and an error for every text that
\* is no integer
C27_ByteStoredOrError ==
    Transformed =>
        \A n \in DOMAIN records.rows : \A f \in CountFields(n) :
            /\ DecimalInteger(f.text) /\ Atoi(f.text).val \in 0..255 =>
                  f.stored = Atoi(f.text).val /\ ~CountErrorAdded(n, f)
            /\ f.text = <<>> => f.stored = 0 /\ ~CountErrorAdded(n, f)
            /\ f.text # <<>> /\ ~DecimalInteger(f.text) => CountErrorAdded(n, f)


\* validateMatches, validateTournament and validateSweepstake add no error
\* for the sweepstake and leave it as it is
ValidatorsAccept(s) ==
    LET order == CHOOSE o \in Orders(AuditKeys(s.Tournament.Teams)) : TRUE
        t == validateTournament(s.Tournament, NewMultiError, order)
        v == validateSweepstake(s, NewMultiError, order)
    IN  /\ validateTeams(s.Tournament.Teams).errNil
        /\ validateMatches(s.Tournament.Matches).errNil
        /\ t.errs = <<>> /\ t.val = s.Tournament
        /\ v.errs = <<>> /\ v.val = s

\* a completed match has an own goal and lacks its home or its away team
OwnGoalWithoutTeam(s) ==
    \E n \in DOMAIN s.Tournament.Matches :
        LET match == s.Tournament.Matches[n]
        IN  /\ match.Completed
            /\ match.Home.OwnGoals \o match.Away.OwnGoals # <<>>
            /\ match.Home.Team.nil \/ match.Away.Team.nil

\* every prize function returned a result
AllReturned(p) ==
    /\ p.Winner # Panic /\ p.RunnerUp # Panic /\ p.MostGoalsConceded # Panic
    /\ p.MostYellowCards # Panic /\ p.QuickestOwnGoal # Panic

\* C28: for every tournament and sweepstake that the validators accept, each
\* prize function returns a result without failing, including when a
\* completed match has an own-goal event but no home team or no away team.
C28_PrizesNeverFail ==
    RanPrizes =>
        \A i \in DOMAIN prizes :
            ValidatorsAccept(prizeSweepstakes[i]) => AllReturned(prizes[i])

\* the same for the accepted sweepstakes whose completed matches with own
\* goals have both teams, and a panic of QuickestOwnGoal alone for the others
C28_PrizesFailOnlyWithoutTeam ==
    RanPrizes =>
        \A i \in DOMAIN prizes :
            ValidatorsAccept(prizeSweepstakes[i]) =>
                IF OwnGoalWithoutTeam(prizeSweepstakes[i])
                THEN /\ prizes[i].QuickestOwnGoal = Panic
                     /\ AllReturned([prizes[i] EXCEPT !.QuickestOwnGoal = <<>>])
                ELSE AllReturned(prizes[i])


\* the errors validateSweepstake adds for the sweepstake validated alone,
\* with an aggregator and an audit of its own
ValidatedAlone(s) ==
    validateSweepstake(s, NewMultiError,
                       CHOOSE o \in Orders(AuditKeys(s.Tournament.Teams)) : TRUE).errs

RECURSIVE ValidatedAloneFrom(_)
ValidatedAloneFrom(i) ==
    IF i > Len(sweepstakes) THEN <<>>
    ELSE ValidatedAlone(sweepstakes[i]) \o ValidatedAloneFrom(i + 1)

\* the errors of a list that are no duplicate-id errors
NotDuplicateErrors(errs) ==
    SelectSeq(errs, LAMBDA e :
        \A i \in DOMAIN sweepstakes :
            \A id \in {sweepstakes[i].ID, sweepstakes[i].ID \o <<" ">>} :
                e # "id '" \o Join(id) \o "': " \o ErrIsDuplicate)

\* C29: each sweepstake is audited against fresh counters: the participant
\* and team-count errors reported for a sweepstake are the same whether it is
\* validated alone or after other sweepstakes that share the same tournament,
\* and validating a sweepstake changes nothing in the tournament.
C29_FreshAuditPerSweepstake ==
    RanValidateSweepstakes =>
        /\ NotDuplicateErrors(sweepstakesOut.errs) = ValidatedAloneFrom(1)
        /\ \A i \in DOMAIN sweepstakes :
              sweepstakes[i].Tournament
                  = LoadedTournament(<<ValidTeam("A"), ValidTeam("B")>>)

\* two sweepstakes on the same tournament, each with a participant for A and
\* one for B, were validated without an error
C29_Witness ==
    /\ RanValidateSweepstakes /\ Len(sweepstakes) = 2
    /\ sweepstakes[1].ID = <<"s">> /\ sweepstakes[2].ID = <<"t">>
    /\ Len(sweepstakes[1].Participants) = 2 /\ Len(sweepstakes[2].Participants) = 2
    /\ sweepstakes[1].Tournament = sweepstakes[2].Tournament
    /\ sweepstakesOut.errNil


\* the places of the loaders that fail
Failing == {i \in DOMAIN loaders : loaders[i].err # NilError}

\* the tournaments of the loaders, in loader order
Loaded == [i \in DOMAIN loaders |-> loaders[i].tournament]

\* NewTournamentCollection has returned
RanNewTournamentCollection == pc = "done" /\ loaders # <<>>

\* C30: NewTournamentCollection calls the loaders in list order and stops at
\* the first loader that fails: it returns that loader's error prefixed with
\* 'loader index <i>' (i counted from 0), returns no collection, and calls no
\* loader after the failing one; when all succeed, the tournaments are in
\* loader order.
C30_LoadersInOrderUntilFailure ==
    /\ called = [i \in 1..Len(called) |-> i]
    /\ \A i \in DOMAIN called : \A j \in 1..(i - 1) : called[j] \notin Failing
    /\ RanNewTournamentCollection =>
          IF Failing # {}
          THEN LET first == CHOOSE i \in Failing : \A j \in Failing : i <= j
               IN  /\ Len(called) = first
                   /\ tournamentsOut.collNil /\ ~tournamentsOut.errNil
                   /\ ~tournamentsOut.aggregate
                   /\ tournamentsOut.msg
                         = "loader index " \o Itoa(first - 1) \o ": " \o loaders[first].err
          ELSE /\ Len(called) = Len(loaders)
               /\ tournaments = Loaded
               /\ tournamentsOut.errNil => tournamentsOut.coll = Loaded

\* of three loaders the second failed: the first two were called, the third
\* was not, and the error of the second is returned as that of index 1
C30_Witness ==
    /\ RanNewTournamentCollection /\ Len(loaders) = 3
    /\ Failing = {2} /\ called = <<1, 2>>
    /\ tournamentsOut.msg = "loader index 1: sad times"

=============================================================================
